---- MODULE Spec2Model ----
(***************************************************************************)
(* A model of python-periphery's GPIO subsystem: the GPIO factory          *)
(* (periphery/gpio.py), the character-device sessions (gpio.py CdevGPIO,   *)
(* gpio_cdev1.py Cdev1GPIO, gpio_cdev2.py Cdev2GPIO), the sysfs sessions   *)
(* (gpio.py SysfsGPIO, gpio_sysfs.py SysfsGPIO) and GPIO.poll_multiple,    *)
(* together with the part of the operating system they talk to: the        *)
(* process's descriptor table, the kernel's line requests and edge-event   *)
(* queues, and the /sys/class/gpio directory.                              *)
(*                                                                         *)
(* Every library call is one action: the whole handler, with each system   *)
(* call it makes and each exception it can raise.  A system call that can  *)
(* fail fails nondeterministically.                                        *)
(***************************************************************************)
EXTENDS Integers, Sequences, FiniteSets, TLC

\* ------------------------------------------------------------------ bounds
\* Session objects the caller creates.
NSessions == 3
\* Descriptor numbers of the process: 1..MaxFd.
MaxFd == 4
\* GPIO line numbers of the sysfs class: 1..MaxLine.
MaxLine == 2
\* Edge events the kernel queues on one line descriptor.
MaxEvents == 2
\* Readings of the kernel's clock, in nanoseconds: 1..MaxStamp.
MaxStamp == 1
\* The longest timeout the caller passes to poll, in seconds.
MaxTimeout == 2
\* Lines of the GPIO chip a line is looked up on by name.
MaxChipLines == 3

Sessions == 1..NSessions
FdNums == 1..MaxFd
Lines == 1..MaxLine
Stamps == 1..MaxStamp

\* Python's None in an integer-valued field (a descriptor, a line number).
PyNone == 0

\* ------------------------------------------------------- closed value sets
Directions == {"in", "out", "high", "low"}
Edges == {"none", "rising", "falling", "both"}
Biases == {"default", "pull_up", "pull_down", "disable"}
Drives == {"default", "open_drain", "open_source"}

\* The session classes.  "gpio.CdevGPIO" and "gpio.SysfsGPIO" are the classes
\* defined in periphery/gpio.py, the others those of the gpio_* modules.
CdevClasses == {"gpio.CdevGPIO", "gpio_cdev1.Cdev1GPIO", "gpio_cdev2.Cdev2GPIO"}
SysfsClasses == {"gpio.SysfsGPIO", "gpio_sysfs.SysfsGPIO"}

\* The request path a character-device class speaks.
IsV1(c) == c \in {"gpio.CdevGPIO", "gpio_cdev1.Cdev1GPIO"}
IsV2(c) == c = "gpio_cdev2.Cdev2GPIO"

\* Kernel versions (major, minor) the host may report.
KernelVersions == {<<4, 19>>, <<5, 9>>, <<6, 1>>}

\* ------------------------------------------------------------------ state
VARIABLES
    kernel,     \* KERNEL_VERSION of the host
    sess,       \* the session objects: their class, life cycle and fields
    fdtab,      \* the process's descriptor table: number -> what is open there
    line,       \* kernel state of each character-device session's line
    sysfs,      \* /sys/class/gpio: per line number, the exported directory
    last        \* the last library call: what it was, how it ended, what it did

vars == <<kernel, sess, fdtab, line, sysfs, last>>

\* ------------------------------------------------------- kernel version
\* Python's tuple comparison a >= b on (major, minor).
VersionGE(a, b) == a[1] > b[1] \/ (a[1] = b[1] /\ a[2] >= b[2])

\* The bias threshold put at the v2 threshold.
SUPPORTS_LINE_BIAS_from_5_10(k) == VersionGE(k, <<5, 10>>)

\* Cdev1GPIO._SUPPORTS_LINE_BIAS, CdevGPIO._SUPPORTS_LINE_BIAS
SUPPORTS_LINE_BIAS(k) == VersionGE(k, <<5, 5>>)

\* Cdev2GPIO.SUPPORTED
SUPPORTED(k) == VersionGE(k, <<5, 10>>)

\* ------------------------------------------------------- descriptor table
\* kind: "free", "chip", "line" (a requested line), "value" (a sysfs value
\* file), "deadvalue" (a value file whose line has been unexported since),
\* "unexport"; owner: the session that opened it; of: the line it is about;
\* off: the file offset; pri: a sysfs edge notification not yet read.
Slot(kind, owner, l) == [kind |-> kind, owner |-> owner, of |-> l, off |-> 0, pri |-> FALSE]

FreeSlot == Slot("free", 0, 0)

IsOpen(tab, n) == n \in FdNums /\ tab[n].kind # "free"

HasFree(tab) == \E n \in FdNums : tab[n].kind = "free"

\* The kernel hands out the lowest free descriptor number.
AllocFd(tab) == CHOOSE n \in FdNums : tab[n].kind = "free" /\ \A m \in FdNums : m < n => tab[m].kind # "free"


\* A system call recorded in the log of the current library call: the call and
\* the place it is made from, the descriptor it is made on, whether it succeeded.
Call(name, n, ok) == [call |-> name, fd |-> n, ok |-> ok]

\* How a library call ends: it returns, or raises an exception with a message.
Ok == [exc |-> "None", msg |-> ""]

GPIOError(msg) == [exc |-> "GPIOError", msg |-> msg]

Raised(exc) == [exc |-> exc, msg |-> ""]

\* os.close(n).  Closing a number that is not open fails with EBADF.  fails
\* says that closing an open descriptor reports an error (EIO, EINTR); Linux
\* has released the descriptor by then, so the number is free either way.
OsCloseOk(tab, n, fails) == IsOpen(tab, n) /\ ~fails

OsCloseReleases(tab, n) == IsOpen(tab, n)

\* The line a released line descriptor gives back: no request, no queue.
ReleasedLine(l) ==
    [requested |-> FALSE, ioctl |-> "", flags |-> {}, eventflags |-> {}, events |-> <<>>, level |-> l.level]

\* The descriptor table and the lines after os.close(n).
TabAfterClose(tab, n) ==
    IF OsCloseReleases(tab, n) THEN [tab EXCEPT ![n] = FreeSlot] ELSE tab

LinesAfterClose(tab, ln, n) ==
    IF OsCloseReleases(tab, n) /\ tab[n].kind = "line"
    THEN [ln EXCEPT ![tab[n].owner] = ReleasedLine(@)]
    ELSE ln

\* ------------------------------------------------ character-device session
\* The fields __init__ sets before _open: every one None (inverted, a bool
\* once set, is written FALSE here; nothing reads it before _reopen sets it).
NewCdev(c) ==
    [cls |-> c, phase |-> "new", line_fd |-> PyNone, chip_fd |-> PyNone, line |-> PyNone,
     direction |-> "None", edge |-> "None", bias |-> "None", drive |-> "None",
     inverted |-> FALSE, fd |-> PyNone, exported |-> FALSE,
     found_dir |-> FALSE, wrote_export |-> FALSE]

\* No object.
NoSession == [NewCdev("none") EXCEPT !.phase = "none"]

\* _reopen: flags |= bias flag
BiasFlags(c, bias) ==
    IF bias = "pull_up" THEN {"BIAS_PULL_UP"}
    ELSE IF bias = "pull_down" THEN {"BIAS_PULL_DOWN"}
    ELSE IF bias = "disable" THEN {IF IsV1(c) THEN "BIAS_DISABLE" ELSE "BIAS_DISABLED"}
    ELSE {}

\* _reopen: flags |= drive flag
DriveFlags(drive) ==
    IF drive = "open_drain" THEN {"OPEN_DRAIN"}
    ELSE IF drive = "open_source" THEN {"OPEN_SOURCE"}
    ELSE {}

\* _reopen: flags |= active-low flag
InvertedFlags(inverted) == IF inverted THEN {"ACTIVE_LOW"} ELSE {}

\* Cdev1GPIO._reopen: request.eventflags
EventFlagsV1(edge) ==
    IF edge = "rising" THEN {"RISING_EDGE"}
    ELSE IF edge = "falling" THEN {"FALLING_EDGE"}
    ELSE {"RISING_EDGE", "FALLING_EDGE"}

\* Cdev2GPIO._reopen: the edge flags and the realtime event clock flag
EdgeFlagsV2(edge) ==
    (IF edge = "rising" THEN {"EDGE_RISING"}
     ELSE IF edge = "falling" THEN {"EDGE_FALLING"}
     ELSE IF edge = "both" THEN {"EDGE_RISING", "EDGE_FALLING"}
     ELSE {})
    \cup (IF edge # "none" THEN {"EVENT_CLOCK_REALTIME"} ELSE {})

\* An initial value that leaves the inversion to the kernel's active-low flag.
InitialValueOfDirection(direction, inverted) == direction = "high"

\* _reopen: initial_value = (direction == "high") ^ inverted
InitialValue(direction, inverted) == (direction = "high") # inverted

\* The line request _reopen builds for its arguments: the control call, the
\* flags, the v1 event flags and the initial (logical) output value.
LineRequest(c, direction, edge, bias, drive, inverted) ==
    LET flags == BiasFlags(c, bias) \cup DriveFlags(drive) \cup InvertedFlags(inverted)
    IN  IF direction = "in"
        THEN IF IsV1(c)
             THEN IF edge = "none"
                  THEN [ioctl |-> "GPIO_GET_LINEHANDLE", flags |-> flags \cup {"INPUT"},
                        eventflags |-> {}, value |-> FALSE]
                  ELSE [ioctl |-> "GPIO_GET_LINEEVENT", flags |-> flags \cup {"INPUT"},
                        eventflags |-> EventFlagsV1(edge), value |-> FALSE]
             ELSE [ioctl |-> "GPIO_V2_GET_LINE", flags |-> flags \cup EdgeFlagsV2(edge) \cup {"INPUT"},
                   eventflags |-> {}, value |-> FALSE]
        ELSE [ioctl |-> IF IsV1(c) THEN "GPIO_GET_LINEHANDLE" ELSE "GPIO_V2_GET_LINE",
              flags |-> flags \cup {"OUTPUT"},
              eventflags |-> {}, value |-> InitialValue(direction, inverted)]

\* The kernel's validation of a line request: a kernel has the v2 control
\* calls from the version Cdev2GPIO.SUPPORTED names on, and drive flags go
\* with an output line only (EINVAL otherwise).
KernelAccepts(k, req) ==
    /\ req.ioctl = "GPIO_V2_GET_LINE" => SUPPORTED(k)
    /\ ~(req.flags \cap {"OPEN_DRAIN", "OPEN_SOURCE"} # {} /\ "OUTPUT" \notin req.flags)

\* The line after the kernel granted req: an output line is driven to the
\* initial value (logical, so inverted by the active-low flag), an input line
\* keeps the level the outside world gives it.
GrantedLine(l, req) ==
    [requested |-> TRUE, ioctl |-> req.ioctl, flags |-> req.flags, eventflags |-> req.eventflags,
     events |-> <<>>,
     level |-> IF "OUTPUT" \in req.flags THEN (req.value # ("ACTIVE_LOW" \in req.flags)) ELSE l.level]

\* What a library call did: the session, the descriptor table and the lines
\* after it, the system calls it made, the line requests it issued, the
\* configuration it passed to _reopen (cfg, <<>> when _reopen was not reached),
\* how it ended and what it returned.
Outcome(s, tab, ln, calls, reqs, cfg, ret) ==
    [s |-> s, tab |-> tab, ln |-> ln, sy |-> sysfs, calls |-> calls, reqs |-> reqs, cfg |-> cfg,
     ret |-> ret, val |-> <<>>]

\* A _reopen without the check of the kernel version.
BiasNeverRejected(c, k, bias) == FALSE

\* _reopen: the unsupported-bias check that precedes everything else (v1 only).
BiasRejected(c, k, bias) == IsV1(c) /\ bias # "default" /\ ~SUPPORTS_LINE_BIAS(k)

\* _reopen: the cached configuration stored after a granted request.
StoreConfig(s, n, direction, edge, bias, drive, inverted) ==
    [s EXCEPT !.line_fd = n,
              !.direction = IF direction = "in" THEN "in" ELSE "out",
              !.edge = edge, !.bias = bias, !.drive = drive, !.inverted = inverted]

\* The message of the GPIOError a refused line request raises.
RequestError(req) ==
    IF "OUTPUT" \in req.flags THEN "Opening output line handle"
    ELSE IF req.ioctl = "GPIO_GET_LINEEVENT" THEN "Opening input line event handle"
    ELSE "Opening input line handle"

Str(b) == IF b THEN "True" ELSE "False"

\* A _reopen that asks for the line while the session still holds its old
\* line descriptor, and closes the old one only when the request is granted.
reopen_request_first(i, s, tab, ln, k, direction, edge, bias, drive, inverted, f) ==
    LET req == LineRequest(s.cls, direction, edge, bias, drive, inverted)
        cfg == <<direction, edge, bias, drive, Str(inverted)>>
        closing == s.line_fd # PyNone
        granted == /\ IsOpen(tab, s.chip_fd)
                   /\ tab[s.chip_fd].kind = "chip"
                   /\ KernelAccepts(k, req)
                   /\ ~ln[i].requested
                   /\ HasFree(tab)
                   /\ f # "request"
        n == AllocFd(tab)
        tab1 == [tab EXCEPT ![n] = Slot("line", i, i)]
        calls1 == <<Call(req.ioctl, s.chip_fd, granted)>>
        calls2 == IF closing THEN <<Call("os.close(line_fd)", s.line_fd, TRUE)>> ELSE <<>>
    IN  IF BiasRejected(s.cls, k, bias)
        THEN Outcome(s, tab, ln, <<>>, <<>>, cfg,
                     GPIOError("Line bias configuration not supported by kernel version"))
        ELSE IF ~granted
        THEN Outcome(s, tab, ln, calls1, <<req>>, cfg, GPIOError(RequestError(req)))
        ELSE Outcome(StoreConfig(s, n, direction, edge, bias, drive, inverted),
                     IF closing THEN TabAfterClose(tab1, s.line_fd) ELSE tab1,
                     [ln EXCEPT ![i] = GrantedLine(@, req)],
                     calls1 \o calls2, <<req>>, cfg, Ok)

\* _reopen(direction, edge, bias, drive, inverted) of session i.  f is the
\* system call that fails for a reason of its own: "close" (closing the
\* existing line descriptor), "request" (the line request: EBUSY, EPERM, ...)
\* or "none".
reopen(i, s, tab, ln, k, direction, edge, bias, drive, inverted, f) ==
    LET req == LineRequest(s.cls, direction, edge, bias, drive, inverted)
        cfg == <<direction, edge, bias, drive, Str(inverted)>>
        closing == s.line_fd # PyNone
        closeOk == ~closing \/ OsCloseOk(tab, s.line_fd, f = "close")
        tab1 == IF closing THEN TabAfterClose(tab, s.line_fd) ELSE tab
        ln1 == IF closing THEN LinesAfterClose(tab, ln, s.line_fd) ELSE ln
        calls1 == IF closing THEN <<Call("os.close(line_fd)", s.line_fd, closeOk)>> ELSE <<>>
        s1 == [s EXCEPT !.line_fd = PyNone]
        granted == /\ IsOpen(tab1, s.chip_fd)
                   /\ tab1[s.chip_fd].kind = "chip"
                   /\ KernelAccepts(k, req)
                   /\ ~ln1[i].requested
                   /\ HasFree(tab1)
                   /\ f # "request"
        n == AllocFd(tab1)
    IN  IF BiasRejected(s.cls, k, bias)
        THEN Outcome(s, tab, ln, <<>>, <<>>, cfg,
                     GPIOError("Line bias configuration not supported by kernel version"))
        ELSE IF ~closeOk
        THEN Outcome(s, tab1, ln1, calls1, <<>>, cfg, GPIOError("Closing existing GPIO line"))
        ELSE IF ~granted
        THEN Outcome(s1, tab1, ln1, calls1 \o <<Call(req.ioctl, s.chip_fd, FALSE)>>, <<req>>, cfg,
                     GPIOError(RequestError(req)))
        ELSE Outcome(StoreConfig(s1, n, direction, edge, bias, drive, inverted),
                     [tab1 EXCEPT ![n] = Slot("line", i, i)],
                     [ln1 EXCEPT ![i] = GrantedLine(@, req)],
                     calls1 \o <<Call(req.ioctl, s.chip_fd, TRUE)>>, <<req>>, cfg, Ok)

\* GPIO.__new__(cls, *args): the class of the object the factory creates for
\* nargs positional arguments.
GPIO_new(nargs) == IF nargs > 2 THEN "gpio.CdevGPIO" ELSE "gpio.SysfsGPIO"

\* The class of the object a constructor call creates.
ClassOf(ctor, nargs) == IF ctor = "GPIO" THEN GPIO_new(nargs) ELSE ctor

\* The log of a library call.
Log(op, i, arg, r) ==
    [op |-> op, i |-> i, arg |-> arg, cfg |-> r.cfg, ret |-> r.ret, val |-> r.val,
     calls |-> r.calls, reqs |-> r.reqs, gpios |-> <<>>, timeout |-> 0, waited |-> 0,
     prev |-> <<>>]

\* The log before any call.
NoCall ==
    [op |-> "none", i |-> 0, arg |-> "", cfg |-> <<>>, ret |-> Ok, val |-> <<>>,
     calls |-> <<>>, reqs |-> <<>>, gpios |-> <<>>, timeout |-> 0, waited |-> 0,
     prev |-> <<>>]

\* The state after a library call on session i that ended as r, the session
\* then being in life-cycle phase ph.
Apply(op, i, arg, r, ph) ==
    /\ sess' = [sess EXCEPT ![i] = [r.s EXCEPT !.phase = ph]]
    /\ fdtab' = r.tab
    /\ line' = r.ln
    /\ sysfs' = r.sy
    /\ last' = Log(op, i, arg, r)
    /\ UNCHANGED kernel

\* _open(path, line, direction, edge, bias, drive, inverted, label) with valid
\* arguments and a numeric line: open the chip, then _reopen.  f is the system
\* call that fails for a reason of its own: "open", "request" or "none".
cdev_open(i, s, tab, ln, k, direction, edge, bias, drive, inverted, f) ==
    LET n == AllocFd(tab)
        s1 == [s EXCEPT !.chip_fd = n, !.line = i]
        tab1 == [tab EXCEPT ![n] = Slot("chip", i, 0)]
        r == reopen(i, s1, tab1, ln, k, direction, edge, bias, drive, inverted, f)
    IN  IF f = "open" \/ ~HasFree(tab)
        THEN Outcome(s, tab, ln, <<Call("os.open(path)", PyNone, FALSE)>>, <<>>, <<>>,
                     GPIOError("Opening GPIO chip"))
        ELSE [r EXCEPT !.calls = <<Call("os.open(path)", n, TRUE)>> \o @]

\* ctor(path, line, direction, edge=..., bias=..., drive=..., inverted=...):
\* three positional arguments, __new__, __init__ and _open.  A constructor that
\* raises leaves an object nobody holds ("failed"), which __del__ will close.
ConstructCdev(i, ctor, direction, edge, bias, drive, inverted, f) ==
    /\ sess[i].phase = "none"
    /\ LET r == cdev_open(i, NewCdev(ClassOf(ctor, 3)), fdtab, line, kernel,
                          direction, edge, bias, drive, inverted, f)
       IN  Apply("open", i, ctor, r, IF r.ret = Ok THEN "open" ELSE "failed")

\* A close() that closes the chip descriptor first and the line descriptor second.
cdev_close_chip_first(s, tab, ln, f) ==
    LET closing1 == s.chip_fd # PyNone
        ok1 == ~closing1 \/ OsCloseOk(tab, s.chip_fd, f = "chip")
        tab1 == IF closing1 THEN TabAfterClose(tab, s.chip_fd) ELSE tab
        calls1 == IF closing1 THEN <<Call("os.close(chip_fd)", s.chip_fd, ok1)>> ELSE <<>>
        closing2 == s.line_fd # PyNone
        ok2 == ~closing2 \/ OsCloseOk(tab1, s.line_fd, f = "line")
        tab2 == IF closing2 THEN TabAfterClose(tab1, s.line_fd) ELSE tab1
        ln2 == IF closing2 THEN LinesAfterClose(tab1, ln, s.line_fd) ELSE ln
        calls2 == calls1 \o (IF closing2 THEN <<Call("os.close(line_fd)", s.line_fd, ok2)>> ELSE <<>>)
    IN  IF ~ok1 THEN Outcome(s, tab1, ln, calls1, <<>>, <<>>, GPIOError("Closing GPIO chip"))
        ELSE IF ~ok2 THEN Outcome(s, tab2, ln2, calls2, <<>>, <<>>, GPIOError("Closing GPIO line"))
        ELSE Outcome([s EXCEPT !.line_fd = PyNone, !.chip_fd = PyNone, !.edge = "none",
                               !.direction = "in", !.line = PyNone],
                     tab2, ln2, calls2, <<>>, <<>>, Ok)

\* Cdev*GPIO.close().  f is the close that reports an error of its own:
\* "line", "chip" or "none".
cdev_close(s, tab, ln, f) ==
    LET closing1 == s.line_fd # PyNone
        ok1 == ~closing1 \/ OsCloseOk(tab, s.line_fd, f = "line")
        tab1 == IF closing1 THEN TabAfterClose(tab, s.line_fd) ELSE tab
        ln1 == IF closing1 THEN LinesAfterClose(tab, ln, s.line_fd) ELSE ln
        calls1 == IF closing1 THEN <<Call("os.close(line_fd)", s.line_fd, ok1)>> ELSE <<>>
        closing2 == s.chip_fd # PyNone
        ok2 == ~closing2 \/ OsCloseOk(tab1, s.chip_fd, f = "chip")
        tab2 == IF closing2 THEN TabAfterClose(tab1, s.chip_fd) ELSE tab1
        ln2 == IF closing2 THEN LinesAfterClose(tab1, ln1, s.chip_fd) ELSE ln1
        calls2 == calls1 \o (IF closing2 THEN <<Call("os.close(chip_fd)", s.chip_fd, ok2)>> ELSE <<>>)
    IN  IF ~ok1 THEN Outcome(s, tab1, ln1, calls1, <<>>, <<>>, GPIOError("Closing GPIO line"))
        ELSE IF ~ok2 THEN Outcome(s, tab2, ln2, calls2, <<>>, <<>>, GPIOError("Closing GPIO chip"))
        ELSE Outcome([s EXCEPT !.line_fd = PyNone, !.chip_fd = PyNone, !.edge = "none",
                               !.direction = "in", !.line = PyNone],
                     tab2, ln2, calls2, <<>>, <<>>, Ok)

\* close() on a character-device session, called by the holder of an open or
\* closed session, or by __del__ on an object whose constructor raised.
CdevClose(i, f) ==
    /\ sess[i].cls \in CdevClasses
    /\ sess[i].phase \in {"open", "closed", "failed"}
    /\ LET r == cdev_close(sess[i], fdtab, line, f)
       IN  Apply("close", i, "", r, IF r.ret = Ok THEN "closed" ELSE sess[i].phase)

\* A call that returns or raises before it does anything.
Nothing(s, ret) == Outcome(s, fdtab, line, <<>>, <<>>, <<>>, ret)

\* _set_direction(direction)
set_direction(i, s, direction, f) ==
    IF s.direction = direction THEN Nothing(s, Ok)
    ELSE reopen(i, s, fdtab, line, kernel, direction, "none", s.bias, s.drive, s.inverted, f)

\* A _set_edge without the check of the cached direction.
set_edge_any_direction(i, s, edge, f) ==
    IF s.edge = edge THEN Nothing(s, Ok)
    ELSE reopen(i, s, fdtab, line, kernel, s.direction, edge, s.bias, s.drive, s.inverted, f)

\* _set_edge(edge)
set_edge(i, s, edge, f) ==
    IF s.direction # "in" THEN Nothing(s, GPIOError("Invalid operation: cannot set edge on output GPIO"))
    ELSE IF s.edge = edge THEN Nothing(s, Ok)
    ELSE reopen(i, s, fdtab, line, kernel, s.direction, edge, s.bias, s.drive, s.inverted, f)

\* A _set_bias that reconfigures without comparing with the cached bias.
set_bias_always(i, s, bias, f) ==
    reopen(i, s, fdtab, line, kernel, s.direction, s.edge, bias, s.drive, s.inverted, f)

\* _set_bias(bias)
set_bias(i, s, bias, f) ==
    IF s.bias = bias THEN Nothing(s, Ok)
    ELSE reopen(i, s, fdtab, line, kernel, s.direction, s.edge, bias, s.drive, s.inverted, f)

\* A _set_drive without the check of the cached direction.
set_drive_any_direction(i, s, drive, f) ==
    IF s.drive = drive THEN Nothing(s, Ok)
    ELSE reopen(i, s, fdtab, line, kernel, s.direction, s.edge, s.bias, drive, s.inverted, f)

\* _set_drive(drive)
set_drive(i, s, drive, f) ==
    IF s.direction # "out" /\ drive # "default"
    THEN Nothing(s, GPIOError("Invalid operation: cannot set line drive on input GPIO"))
    ELSE IF s.drive = drive THEN Nothing(s, Ok)
    ELSE reopen(i, s, fdtab, line, kernel, s.direction, s.edge, s.bias, drive, s.inverted, f)

\* _set_inverted(inverted)
set_inverted(i, s, inverted, f) ==
    IF s.inverted = inverted THEN Nothing(s, Ok)
    ELSE reopen(i, s, fdtab, line, kernel, s.direction, s.edge, s.bias, s.drive, inverted, f)

\* The holder of an open character-device session assigns a property.
IsOpenCdev(i) == sess[i].cls \in CdevClasses /\ sess[i].phase = "open"

SetDirection(i, direction, f) ==
    IsOpenCdev(i) /\ Apply("direction", i, direction, set_direction(i, sess[i], direction, f), "open")

SetEdge(i, edge, f) ==
    IsOpenCdev(i) /\ Apply("edge", i, edge, set_edge(i, sess[i], edge, f), "open")

SetBias(i, bias, f) ==
    IsOpenCdev(i) /\ Apply("bias", i, bias, set_bias(i, sess[i], bias, f), "open")

SetDrive(i, drive, f) ==
    IsOpenCdev(i) /\ Apply("drive", i, drive, set_drive(i, sess[i], drive, f), "open")

SetInverted(i, inverted, f) ==
    IsOpenCdev(i) /\ Apply("inverted", i, Str(inverted), set_inverted(i, sess[i], inverted, f), "open")

MutatorOps == {"direction", "edge", "bias", "drive", "inverted"}

\* ------------------------------------------------------------ /sys/class/gpio
\* A line number of /sys/class/gpio that is not exported.
AbsentLine ==
    [present |-> FALSE, direction |-> "in", edge |-> "none", active_low |-> FALSE, level |-> FALSE]

\* The directory the kernel creates for an exported line: an input, no edge,
\* active high.
ExportedLine == [AbsentLine EXCEPT !.present = TRUE]

\* The kernel's effect of writing d to the direction attribute: "out" and
\* "low" drive the line low, "high" drives it high.
WriteDirection(a, d) ==
    IF d = "in" THEN [a EXCEPT !.direction = "in"]
    ELSE [a EXCEPT !.direction = "out", !.level = (d = "high")]

\* The descriptor table after line l is unexported: the value files still
\* open on it are dead.
TabAfterUnexport(tab, l) ==
    [n \in FdNums |->
        IF tab[n].kind = "value" /\ tab[n].of = l
        THEN [tab[n] EXCEPT !.kind = "deadvalue", !.pri = TRUE]
        ELSE tab[n]]

\* ------------------------------------------------------------ sysfs session
\* SysfsGPIO._GPIO_STAT_RETRIES, SysfsGPIO.GPIO_OPEN_RETRIES
GPIO_STAT_RETRIES == 10

\* The fields __init__ sets before _open.
NewSysfs(c) == [NewCdev(c) EXCEPT !.fd = PyNone, !.line = PyNone, !.exported = FALSE]

\* What a sysfs call did.
SysfsOutcome(s, tab, sy, calls, ret) ==
    [Outcome(s, tab, line, calls, <<>>, <<>>, ret) EXCEPT !.sy = sy]

\* SysfsGPIO._open(line, direction) of session i, an object of class c, with
\* valid arguments.  dirAt is the check of the export loop at which the
\* directory is first seen, eacces the number of attempts on the direction
\* attribute that fail with EACCES before one succeeds, f the step that fails
\* with an error of its own: "export", "direction", "value", "setdir",
\* "inverted" or "none".  unread says whether the kernel counts a value file
\* that has never been read as changed, which depends on the kernel.
sysfs_open(i, c, s, tab, sy, l, direction, dirAt, eacces, unread, f) ==
    LET found == sy[l].present
        exportOk == f # "export"
        seen == dirAt <= GPIO_STAT_RETRIES
        exported == ~found /\ exportOk /\ seen
        s1 == [s EXCEPT !.found_dir = found, !.wrote_export = ~found /\ exportOk,
                        !.exported = exported]
        sy1 == IF exported THEN [sy EXCEPT ![l] = ExportedLine] ELSE sy
        calls1 == IF found THEN <<>> ELSE <<Call("write(export)", PyNone, exportOk)>>
        loopOk == f # "direction" /\ eacces < GPIO_STAT_RETRIES
        \* gpio.py writes the direction in the loop, gpio_sysfs.py only opens it
        sy2 == IF exported /\ loopOk /\ c = "gpio.SysfsGPIO"
               THEN [sy1 EXCEPT ![l] = WriteDirection(@, direction)] ELSE sy1
        calls2 == calls1 \o (IF exported THEN <<Call("open(direction)", PyNone, loopOk)>> ELSE <<>>)
        valueOk == f # "value" /\ HasFree(tab) /\ sy2[l].present
        n == AllocFd(tab)
        tab1 == [tab EXCEPT ![n] = [Slot("value", i, l) EXCEPT !.pri = unread]]
        s2 == [s1 EXCEPT !.fd = n, !.line = l]
        calls3 == calls2 \o <<Call("os.open(value)", IF valueOk THEN n ELSE PyNone, valueOk)>>
        needWrite == IF c = "gpio.SysfsGPIO" THEN ~exported ELSE sy2[l].direction # direction
        setOk == f # "setdir"
        sy3 == IF needWrite /\ setOk THEN [sy2 EXCEPT ![l] = WriteDirection(@, direction)] ELSE sy2
        calls4 == calls3 \o (IF needWrite THEN <<Call("write(direction)", PyNone, setOk)>> ELSE <<>>)
        invOk == f # "inverted"
        sy4 == IF invOk THEN [sy3 EXCEPT ![l].active_low = FALSE] ELSE sy3
        calls5 == calls4 \o <<Call("write(active_low)", PyNone, invOk)>>
    IN  IF ~found /\ ~exportOk
        THEN SysfsOutcome(s1, tab, sy, calls1, GPIOError("Exporting GPIO"))
        ELSE IF ~found /\ ~seen
        THEN SysfsOutcome(s1, tab, sy, calls1, Raised("TimeoutError"))
        ELSE IF exported /\ ~loopOk
        THEN SysfsOutcome(s1, tab, sy1, calls2,
                          GPIOError(IF c = "gpio.SysfsGPIO" THEN "Setting GPIO direction"
                                    ELSE "Opening GPIO direction"))
        ELSE IF ~valueOk
        THEN SysfsOutcome(s1, tab, sy2, calls3, GPIOError("Opening GPIO"))
        ELSE IF needWrite /\ ~setOk
        THEN SysfsOutcome(s2, tab1, sy2, calls4, GPIOError("Setting GPIO direction"))
        ELSE IF c # "gpio.SysfsGPIO"
        THEN SysfsOutcome(s2, tab1, sy3, calls4, Ok)
        ELSE IF ~invOk
        THEN SysfsOutcome(s2, tab1, sy3, calls5, GPIOError("Setting GPIO active_low"))
        ELSE SysfsOutcome(s2, tab1, sy4, calls5, Ok)

\* ctor(line, direction): two positional arguments, __new__, __init__, _open.
ConstructSysfs(i, ctor, l, direction, dirAt, eacces, unread, f) ==
    /\ sess[i].phase = "none"
    /\ LET c == ClassOf(ctor, 2)
           r == sysfs_open(i, c, NewSysfs(c), fdtab, sysfs, l, direction, dirAt, eacces, unread, f)
       IN  Apply("open", i, ctor, r, IF r.ret = Ok THEN "open" ELSE "failed")

\* A close() that unexports the line whether or not the session exported it.
sysfs_close_always_unexports(s, tab, sy, f) ==
    LET closeOk == OsCloseOk(tab, s.fd, f = "close")
        tab1 == TabAfterClose(tab, s.fd)
        calls1 == <<Call("os.close(fd)", s.fd, closeOk)>>
        s1 == [s EXCEPT !.fd = PyNone]
        n == AllocFd(tab1)
        writeOk == f # "unexport" /\ sy[s.line].present
    IN  IF s.fd = PyNone THEN SysfsOutcome(s, tab, sy, <<>>, Ok)
        ELSE IF ~closeOk THEN SysfsOutcome(s, tab1, sy, calls1, GPIOError("Closing GPIO"))
        ELSE IF ~HasFree(tab1)
        THEN SysfsOutcome(s1, tab1, sy, calls1 \o <<Call("os.open(unexport)", PyNone, FALSE)>>,
                          GPIOError("Unexporting GPIO"))
        ELSE IF ~writeOk
        THEN SysfsOutcome(s1, [tab1 EXCEPT ![n] = Slot("unexport", 0, s.line)], sy,
                          calls1 \o <<Call("os.open(unexport)", n, TRUE),
                                      Call("os.write(unexport)", n, FALSE)>>,
                          GPIOError("Unexporting GPIO"))
        ELSE SysfsOutcome(s1, TabAfterUnexport(tab1, s.line), [sy EXCEPT ![s.line] = AbsentLine],
                          calls1 \o <<Call("os.open(unexport)", n, TRUE),
                                      Call("os.write(unexport)", n, TRUE),
                                      Call("os.close(unexport)", n, TRUE)>>,
                          Ok)

\* SysfsGPIO.close().  f is the step that fails with an error of its own:
\* "close" (closing the value descriptor), "unexport" (the write to the
\* unexport file) or "none".  A failed write leaves the descriptor of the
\* unexport file open: the os.close after it is skipped.
sysfs_close(s, tab, sy, f) ==
    LET closeOk == OsCloseOk(tab, s.fd, f = "close")
        tab1 == TabAfterClose(tab, s.fd)
        calls1 == <<Call("os.close(fd)", s.fd, closeOk)>>
        s1 == [s EXCEPT !.fd = PyNone]
        n == AllocFd(tab1)
        writeOk == f # "unexport" /\ sy[s.line].present
    IN  IF s.fd = PyNone THEN SysfsOutcome(s, tab, sy, <<>>, Ok)
        ELSE IF ~closeOk THEN SysfsOutcome(s, tab1, sy, calls1, GPIOError("Closing GPIO"))
        ELSE IF ~s.exported THEN SysfsOutcome(s1, tab1, sy, calls1, Ok)
        ELSE IF ~HasFree(tab1)
        THEN SysfsOutcome(s1, tab1, sy, calls1 \o <<Call("os.open(unexport)", PyNone, FALSE)>>,
                          GPIOError("Unexporting GPIO"))
        ELSE IF ~writeOk
        THEN SysfsOutcome(s1, [tab1 EXCEPT ![n] = Slot("unexport", 0, s.line)], sy,
                          calls1 \o <<Call("os.open(unexport)", n, TRUE),
                                      Call("os.write(unexport)", n, FALSE)>>,
                          GPIOError("Unexporting GPIO"))
        ELSE SysfsOutcome(s1, TabAfterUnexport(tab1, s.line), [sy EXCEPT ![s.line] = AbsentLine],
                          calls1 \o <<Call("os.open(unexport)", n, TRUE),
                                      Call("os.write(unexport)", n, TRUE),
                                      Call("os.close(unexport)", n, TRUE)>>,
                          Ok)

\* close() on a sysfs session, called by the holder of an open or closed
\* session, or by __del__ on an object whose constructor raised.
SysfsClose(i, f) ==
    /\ sess[i].cls \in SysfsClasses
    /\ sess[i].phase \in {"open", "closed", "failed"}
    /\ LET r == sysfs_close(sess[i], fdtab, sysfs, f)
       IN  Apply("close", i, "", r, IF r.ret = Ok THEN "closed" ELSE sess[i].phase)

IsOpenSysfs(i) == sess[i].cls \in SysfsClasses /\ sess[i].phase = "open"

\* SysfsGPIO._set_edge(edge) with a valid edge: write the edge attribute.
sysfs_set_edge(s, tab, sy, edge) ==
    IF sy[s.line].present
    THEN SysfsOutcome(s, tab, [sy EXCEPT ![s.line].edge = edge], <<Call("write(edge)", PyNone, TRUE)>>, Ok)
    ELSE SysfsOutcome(s, tab, sy, <<Call("write(edge)", PyNone, FALSE)>>, GPIOError("Setting GPIO edge"))

SysfsSetEdge(i, edge) ==
    IsOpenSysfs(i) /\ Apply("edge", i, edge, sysfs_set_edge(sess[i], fdtab, sysfs, edge), "open")

\* A SysfsGPIO.read() that leaves the descriptor where os.read(fd, 2) put it,
\* after the two bytes of the value.
sysfs_read_no_rewind(s, tab, sy) ==
    LET n == s.fd
        live == IsOpen(tab, n) /\ tab[n].kind = "value"
        atStart == live /\ tab[n].off = 0
        tab1 == [tab EXCEPT ![n].pri = FALSE, ![n].off = IF atStart THEN 2 ELSE @]
        value == sy[s.line].level # sy[s.line].active_low
    IN  IF ~live
        THEN SysfsOutcome(s, tab, sy, <<Call("os.read(fd)", n, FALSE)>>, GPIOError("Reading GPIO"))
        ELSE IF ~atStart
        THEN SysfsOutcome(s, tab1, sy, <<Call("os.read(fd)", n, TRUE)>>, Raised("IndexError"))
        ELSE [SysfsOutcome(s, tab1, sy, <<Call("os.read(fd)", n, TRUE)>>, Ok)
                EXCEPT !.val = <<Str(value)>>]

\* SysfsGPIO.read(): os.read(fd, 2), which takes the pending notification
\* with it, then the rewind.  The value read is the logical level.
sysfs_read(s, tab, sy) ==
    LET n == s.fd
        live == IsOpen(tab, n) /\ tab[n].kind = "value"
        atStart == live /\ tab[n].off = 0
        tab1 == [tab EXCEPT ![n].pri = FALSE, ![n].off = 0]
        value == sy[s.line].level # sy[s.line].active_low
    IN  IF ~live
        THEN SysfsOutcome(s, tab, sy, <<Call("os.read(fd)", n, FALSE)>>, GPIOError("Reading GPIO"))
        ELSE IF ~atStart
        THEN SysfsOutcome(s, tab1, sy, <<Call("os.read(fd)", n, TRUE), Call("os.lseek(fd)", n, TRUE)>>,
                          Raised("IndexError"))
        ELSE [SysfsOutcome(s, tab1, sy, <<Call("os.read(fd)", n, TRUE), Call("os.lseek(fd)", n, TRUE)>>, Ok)
                EXCEPT !.val = <<Str(value)>>]

\* What a read() follows: the write() or the direction assignment that the
\* caller has just made on the same session and that returned normally.
Preceding(i) ==
    IF last.i = i /\ last.ret = Ok /\ last.op \in {"write", "direction"}
    THEN <<last.op, last.arg>>
    ELSE <<>>

\* A library call on session i that ended as r and follows what Preceding
\* says; the session stays open.
ApplyAfter(op, i, arg, r) ==
    /\ sess' = [sess EXCEPT ![i] = [r.s EXCEPT !.phase = "open"]]
    /\ fdtab' = r.tab
    /\ line' = r.ln
    /\ sysfs' = r.sy
    /\ last' = [Log(op, i, arg, r) EXCEPT !.prev = Preceding(i)]
    /\ UNCHANGED kernel

SysfsRead(i) ==
    IsOpenSysfs(i) /\ ApplyAfter("read", i, "", sysfs_read(sess[i], fdtab, sysfs))

\* The kernel's effect of writing a logical value to the value attribute of
\* an output line.
WriteValue(a, value) == [a EXCEPT !.level = (value # a.active_low)]

\* SysfsGPIO.write(value) with a bool: os.write of "1\n" or "0\n", which the
\* kernel refuses on an input line (EPERM), then the rewind.
sysfs_write(s, tab, sy, value) ==
    LET n == s.fd
        live == IsOpen(tab, n) /\ tab[n].kind = "value"
        writable == live /\ sy[s.line].direction = "out"
    IN  IF ~writable
        THEN SysfsOutcome(s, tab, sy, <<Call("os.write(fd)", n, FALSE)>>, GPIOError("Writing GPIO"))
        ELSE SysfsOutcome(s, [tab EXCEPT ![n].off = 0], [sy EXCEPT ![s.line] = WriteValue(@, value)],
                          <<Call("os.write(fd)", n, TRUE), Call("os.lseek(fd)", n, TRUE)>>, Ok)

SysfsWrite(i, value) ==
    IsOpenSysfs(i) /\ Apply("write", i, Str(value), sysfs_write(sess[i], fdtab, sysfs, value), "open")

\* SysfsGPIO._set_direction(direction) with a valid direction: write the
\* direction attribute.
sysfs_set_direction(s, tab, sy, direction) ==
    IF sy[s.line].present
    THEN SysfsOutcome(s, tab, [sy EXCEPT ![s.line] = WriteDirection(@, direction)],
                      <<Call("write(direction)", PyNone, TRUE)>>, Ok)
    ELSE SysfsOutcome(s, tab, sy, <<Call("write(direction)", PyNone, FALSE)>>,
                      GPIOError("Setting GPIO direction"))

SysfsSetDirection(i, direction) ==
    IsOpenSysfs(i) /\ Apply("direction", i, direction, sysfs_set_direction(sess[i], fdtab, sysfs, direction), "open")

\* SysfsGPIO._set_inverted(inverted) with a bool: write the active_low attribute.
sysfs_set_inverted(s, tab, sy, inverted) ==
    IF sy[s.line].present
    THEN SysfsOutcome(s, tab, [sy EXCEPT ![s.line].active_low = inverted],
                      <<Call("write(active_low)", PyNone, TRUE)>>, Ok)
    ELSE SysfsOutcome(s, tab, sy, <<Call("write(active_low)", PyNone, FALSE)>>,
                      GPIOError("Setting GPIO active_low"))

SysfsSetInverted(i, inverted) ==
    IsOpenSysfs(i) /\ Apply("inverted", i, Str(inverted), sysfs_set_inverted(sess[i], fdtab, sysfs, inverted), "open")

\* ------------------------------------------------------------ line values
\* The value the kernel returns for a requested line: the logical level, the
\* level of the pin inverted by the active-low flag, as 0 or 1.
LineValue(l) == IF l.level # ("ACTIVE_LOW" \in l.flags) THEN 1 ELSE 0

\* bool(x) of an integer.
PyBool(x) == x # 0

\* int(b) of a bool.
PyInt(b) == IF b THEN 1 ELSE 0

\* read() of a character-device session: the get-values control call on the
\* line descriptor (fcntl.ioctl raises TypeError for None).
cdev_read(s, tab, ln) ==
    LET n == s.line_fd
        live == IsOpen(tab, n) /\ tab[n].kind = "line"
    IN  IF n = PyNone THEN Outcome(s, tab, ln, <<>>, <<>>, <<>>, Raised("TypeError"))
        ELSE IF ~live
        THEN Outcome(s, tab, ln, <<Call("GET_LINE_VALUES", n, FALSE)>>, <<>>, <<>>,
                     GPIOError("Getting line value"))
        ELSE [Outcome(s, tab, ln, <<Call("GET_LINE_VALUES", n, TRUE)>>, <<>>, <<>>, Ok)
                EXCEPT !.val = <<Str(PyBool(LineValue(ln[tab[n].of])))>>]

\* A write() that hands the kernel the level of the pin instead of the
\* logical value.
cdev_write_raw(s, tab, ln, value) ==
    LET n == s.line_fd
        live == IsOpen(tab, n) /\ tab[n].kind = "line"
        settable == live /\ "OUTPUT" \in ln[tab[n].of].flags
    IN  IF s.direction # "out"
        THEN Outcome(s, tab, ln, <<>>, <<>>, <<>>, GPIOError("Invalid operation: cannot write to input GPIO"))
        ELSE IF n = PyNone THEN Outcome(s, tab, ln, <<>>, <<>>, <<>>, Raised("TypeError"))
        ELSE IF ~settable
        THEN Outcome(s, tab, ln, <<Call("SET_LINE_VALUES", n, FALSE)>>, <<>>, <<>>,
                     GPIOError("Setting line value"))
        ELSE Outcome(s, tab, [ln EXCEPT ![tab[n].of].level = PyBool(PyInt(value) % 2)],
                     <<Call("SET_LINE_VALUES", n, TRUE)>>, <<>>, <<>>, Ok)

\* A write() without the check of the cached direction: it hands every value
\* to the kernel, which refuses it on an input line.
cdev_write_unchecked(s, tab, ln, value) ==
    LET n == s.line_fd
        live == IsOpen(tab, n) /\ tab[n].kind = "line"
        settable == live /\ "OUTPUT" \in ln[tab[n].of].flags
    IN  IF n = PyNone THEN Outcome(s, tab, ln, <<>>, <<>>, <<>>, Raised("TypeError"))
        ELSE IF ~settable
        THEN Outcome(s, tab, ln, <<Call("SET_LINE_VALUES", n, FALSE)>>, <<>>, <<>>,
                     GPIOError("Setting line value"))
        ELSE Outcome(s, tab,
                     [ln EXCEPT ![tab[n].of].level = (PyBool(PyInt(value)) # ("ACTIVE_LOW" \in ln[tab[n].of].flags))],
                     <<Call("SET_LINE_VALUES", n, TRUE)>>, <<>>, <<>>, Ok)

\* write(value) of a character-device session with a bool: the check of the
\* cached direction, then the set-values control call, which the kernel
\* refuses on a line not requested as an output (EPERM).  The kernel drives
\* the pin to the logical value inverted by the active-low flag.
cdev_write(s, tab, ln, value) ==
    LET n == s.line_fd
        live == IsOpen(tab, n) /\ tab[n].kind = "line"
        settable == live /\ "OUTPUT" \in ln[tab[n].of].flags
    IN  IF s.direction # "out"
        THEN Outcome(s, tab, ln, <<>>, <<>>, <<>>, GPIOError("Invalid operation: cannot write to input GPIO"))
        ELSE IF n = PyNone THEN Outcome(s, tab, ln, <<>>, <<>>, <<>>, Raised("TypeError"))
        ELSE IF ~settable
        THEN Outcome(s, tab, ln, <<Call("SET_LINE_VALUES", n, FALSE)>>, <<>>, <<>>,
                     GPIOError("Setting line value"))
        ELSE Outcome(s, tab,
                     [ln EXCEPT ![tab[n].of].level = (PyBool(PyInt(value)) # ("ACTIVE_LOW" \in ln[tab[n].of].flags))],
                     <<Call("SET_LINE_VALUES", n, TRUE)>>, <<>>, <<>>, Ok)

CdevRead(i) ==
    IsOpenCdev(i) /\ ApplyAfter("read", i, "", cdev_read(sess[i], fdtab, line))

CdevWrite(i, value) ==
    IsOpenCdev(i) /\ Apply("write", i, Str(value), cdev_write(sess[i], fdtab, line, value), "open")

\* ------------------------------------------------------------ edge events
\* read_event: the edge of the EdgeEvent it returns, by the id of the
\* kernel's event record.
EventEdge(id) ==
    IF id = "RISING_EDGE" THEN "rising"
    ELSE IF id = "FALLING_EDGE" THEN "falling"
    ELSE "none"

\* A read_event() without the two checks of the cached configuration: it
\* goes to os.read whatever the session was configured as.
cdev_read_event_unchecked(s, tab, ln) ==
    LET n == s.line_fd
        readable == IsOpen(tab, n) /\ tab[n].kind = "line" /\ ln[tab[n].of].events # <<>>
        q == ln[tab[n].of].events
    IN  IF ~readable
        THEN Outcome(s, tab, ln, <<Call("os.read(line_fd)", n, FALSE)>>, <<>>, <<>>,
                     GPIOError("Reading GPIO event"))
        ELSE [Outcome(s, tab, [ln EXCEPT ![tab[n].of].events = Tail(q)],
                      <<Call("os.read(line_fd)", n, TRUE)>>, <<>>, <<>>, Ok)
                EXCEPT !.val = <<EventEdge(Head(q).id), Head(q).timestamp>>]

\* read_event() of a character-device session: the two checks on the cached
\* configuration, then os.read of one event from the line descriptor.
cdev_read_event(s, tab, ln) ==
    LET n == s.line_fd
        readable == IsOpen(tab, n) /\ tab[n].kind = "line" /\ ln[tab[n].of].events # <<>>
        q == ln[tab[n].of].events
    IN  IF s.direction # "in"
        THEN Outcome(s, tab, ln, <<>>, <<>>, <<>>,
                     GPIOError("Invalid operation: cannot read event of output GPIO"))
        ELSE IF s.edge = "none"
        THEN Outcome(s, tab, ln, <<>>, <<>>, <<>>, GPIOError("Invalid operation: GPIO edge not set"))
        ELSE IF ~readable
        THEN Outcome(s, tab, ln, <<Call("os.read(line_fd)", n, FALSE)>>, <<>>, <<>>,
                     GPIOError("Reading GPIO event"))
        ELSE [Outcome(s, tab, [ln EXCEPT ![tab[n].of].events = Tail(q)],
                      <<Call("os.read(line_fd)", n, TRUE)>>, <<>>, <<>>, Ok)
                EXCEPT !.val = <<EventEdge(Head(q).id), Head(q).timestamp>>]

\* read_event() of session i gets as far as os.read and finds the queue of
\* the line descriptor empty: the descriptor is a blocking one, os.read waits.
NothingToRead(i) ==
    /\ sess[i].direction = "in" /\ sess[i].edge # "none"
    /\ IsOpen(fdtab, sess[i].line_fd) /\ fdtab[sess[i].line_fd].kind = "line"
    /\ line[fdtab[sess[i].line_fd].of].events = <<>>

\* The caller reads an event.  os.read on a line whose queue is empty blocks:
\* the call does not return until an event arrives.
ReadEvent(i) ==
    /\ IsOpenCdev(i)
    /\ ~NothingToRead(i)
    /\ Apply("read_event", i, "", cdev_read_event(sess[i], fdtab, line), "open")

\* The edges the kernel reports on a requested line: those its flags ask for.
WantedEdges(l) ==
    (IF {"RISING_EDGE", "EDGE_RISING"} \cap (l.flags \cup l.eventflags) # {} THEN {"rising"} ELSE {})
    \cup (IF {"FALLING_EDGE", "EDGE_FALLING"} \cap (l.flags \cup l.eventflags) # {} THEN {"falling"} ELSE {})

\* The two edges of a pulse on a line that rests at the given logical level.
PulseEdges(level) == IF level THEN <<"falling", "rising">> ELSE <<"rising", "falling">>

\* The event record the kernel queues for an edge at clock reading ts.
EventRecord(e, ts) == [id |-> IF e = "rising" THEN "RISING_EDGE" ELSE "FALLING_EDGE", timestamp |-> ts]

\* The queue after one more edge: the kernel drops an edge the request did
\* not ask for, and one the queue has no room for.
Enqueue(q, e, wanted, ts) ==
    IF e \in wanted /\ Len(q) < MaxEvents THEN Append(q, EventRecord(e, ts)) ELSE q

\* The world pulses the line character-device session i has requested as an
\* input: the level changes and changes back.
CdevEdge(i) ==
    /\ line[i].requested /\ "INPUT" \in line[i].flags
    /\ LET p == PulseEdges(line[i].level # ("ACTIVE_LOW" \in line[i].flags))
           wanted == IF line[i].ioctl = "GPIO_GET_LINEHANDLE" THEN {} ELSE WantedEdges(line[i])
       IN  \E ts \in Stamps :
                line' = [line EXCEPT ![i].events = Enqueue(Enqueue(@, p[1], wanted, ts), p[2], wanted, ts)]
    /\ last' = [NoCall EXCEPT !.op = "edge"]
    /\ UNCHANGED <<kernel, sess, fdtab, sysfs>>

\* The world pulses exported input line l.  The kernel notifies every value
\* file open on the line when the edge attribute asks for an edge of the pulse.
SysfsEdge(l) ==
    /\ sysfs[l].present /\ sysfs[l].direction = "in"
    /\ fdtab' = [n \in FdNums |->
                    IF sysfs[l].edge # "none" /\ fdtab[n].kind = "value" /\ fdtab[n].of = l
                    THEN [fdtab[n] EXCEPT !.pri = TRUE] ELSE fdtab[n]]
    /\ last' = [NoCall EXCEPT !.op = "edge"]
    /\ UNCHANGED <<kernel, sess, line, sysfs>>

\* --------------------------------------------------------- GPIO.poll_multiple
\* The mask of a file that has no poll method of its own.
DEFAULT_POLLMASK == {"POLLIN", "POLLOUT", "POLLRDNORM", "POLLWRNORM"}

\* What the kernel reports for descriptor number n: a closed number is
\* invalid; a line event descriptor and a v2 line descriptor are readable
\* while events are queued, a v1 line handle has no poll method; a sysfs
\* attribute is always readable, and has priority data and an error while a
\* notification is unread or its line is gone.
Revents(tab, ln, n) ==
    IF ~IsOpen(tab, n) THEN {"POLLNVAL"}
    ELSE IF tab[n].kind = "line"
    THEN IF ln[tab[n].of].ioctl = "GPIO_GET_LINEHANDLE" THEN DEFAULT_POLLMASK
         ELSE IF ln[tab[n].of].events # <<>> THEN {"POLLIN", "POLLRDNORM"} ELSE {}
    ELSE IF tab[n].kind = "value"
    THEN {"POLLIN", "POLLRDNORM"} \cup (IF tab[n].pri THEN {"POLLPRI", "POLLERR"} ELSE {})
    ELSE IF tab[n].kind = "deadvalue" THEN {"POLLIN", "POLLRDNORM", "POLLPRI", "POLLERR"}
    ELSE IF tab[n].kind = "unexport" THEN DEFAULT_POLLMASK
    ELSE {}

\* The fd property of a session object.
Fd(s) == IF s.cls \in SysfsClasses THEN s.fd ELSE s.line_fd

\* isinstance(gpio, SysfsGPIO) in gpio.py: SysfsGPIO is the class gpio.py defines.
IsSysfsInstance(s) == s.cls = "gpio.SysfsGPIO"

\* The event mask poll_multiple registers a session's descriptor with.
PollMask(s) == IF IsSysfsInstance(s) THEN {"POLLPRI", "POLLERR"} ELSE {"POLLIN", "POLLRDNORM"}

\* select.poll: the first and the last registration of descriptor n; a later
\* registration of a number replaces the mask, fd_gpio_map[n] the object.
FirstReg(ss, gpios, n) == CHOOSE k \in DOMAIN gpios : Fd(ss[gpios[k]]) = n /\ \A j \in 1..(k - 1) : Fd(ss[gpios[j]]) # n

LastReg(ss, gpios, n) == CHOOSE k \in DOMAIN gpios : Fd(ss[gpios[k]]) = n /\ \A j \in (k + 1)..Len(gpios) : Fd(ss[gpios[j]]) # n

\* p.poll reports a descriptor when the kernel reports an event of its mask,
\* or an error, hangup or invalid number, which no mask filters out.
PollReports(ss, tab, ln, gpios, n) ==
    Revents(tab, ln, n) \cap (PollMask(ss[gpios[LastReg(ss, gpios, n)]]) \cup {"POLLERR", "POLLHUP", "POLLNVAL"}) # {}

\* timeout *= 1000 when positive; a negative timeout (and None, written -1
\* here) waits without limit.
PollTimeoutMs(timeout) == IF timeout > 0 THEN timeout * 1000 ELSE timeout

Indices(gpios) == [k \in DOMAIN gpios |-> k]

\* The positions in gpios whose descriptor p.poll reports, one per descriptor.
PollEvents(ss, tab, ln, gpios) ==
    SelectSeq(Indices(gpios),
              LAMBDA k : /\ FirstReg(ss, gpios, Fd(ss[gpios[k]])) = k
                         /\ PollReports(ss, tab, ln, gpios, Fd(ss[gpios[k]])))

\* p.register(fd, mask) in the log, by its mask.
RegisterCall(mask) ==
    IF mask = {"POLLPRI", "POLLERR"} THEN "register(POLLPRI|POLLERR)" ELSE "register(POLLIN|POLLRDNORM)"

\* The calls poll_multiple makes on descriptors: p.register for every object
\* of gpios in turn, then os.lseek for every gathered object that is an
\* instance of SysfsGPIO.
PollCalls(ss, tab, gpios, results) ==
    LET lseeks == SelectSeq(results, LAMBDA i : IsSysfsInstance(ss[i]))
    IN  [k \in DOMAIN gpios |-> Call(RegisterCall(PollMask(ss[gpios[k]])), Fd(ss[gpios[k]]), TRUE)]
        \o [j \in DOMAIN lseeks |-> Call("os.lseek(fd)", Fd(ss[lseeks[j]]), IsOpen(tab, Fd(ss[lseeks[j]])))]

\* A poll_multiple that reads away what it reports: the queued events of a
\* line, the notification of a value file.
poll_multiple_consuming(ss, tab, ln, gpios, timeout) ==
    LET ev == PollEvents(ss, tab, ln, gpios)
        results == [j \in DOMAIN ev |-> gpios[LastReg(ss, gpios, Fd(ss[gpios[ev[j]]]))]]
        fds == {Fd(ss[results[j]]) : j \in DOMAIN results}
        tab1 == [n \in FdNums |-> IF n \in fds THEN [tab[n] EXCEPT !.off = 0, !.pri = FALSE] ELSE tab[n]]
        ln1 == [i \in DOMAIN ln |->
                    IF \E n \in fds : IsOpen(tab, n) /\ tab[n].kind = "line" /\ tab[n].of = i
                    THEN [ln[i] EXCEPT !.events = <<>>] ELSE ln[i]]
    IN  IF \E k \in DOMAIN gpios : Fd(ss[gpios[k]]) = PyNone
        THEN Outcome(ss, tab, ln, <<>>, <<>>, <<>>, Raised("TypeError"))
        ELSE [Outcome(ss, tab1, ln1, <<>>, <<>>, <<>>, Ok) EXCEPT !.val = results]

\* A poll_multiple that takes the first queued event off every line
\* descriptor it reports, as read_event() would.
poll_multiple_reading(ss, tab, ln, gpios, timeout) ==
    LET ev == PollEvents(ss, tab, ln, gpios)
        results == [j \in DOMAIN ev |-> gpios[LastReg(ss, gpios, Fd(ss[gpios[ev[j]]]))]]
        fds == {Fd(ss[results[j]]) : j \in DOMAIN results}
        ln1 == [i \in DOMAIN ln |->
                    IF ln[i].events # <<>> /\ \E n \in fds : IsOpen(tab, n) /\ tab[n].kind = "line" /\ tab[n].of = i
                    THEN [ln[i] EXCEPT !.events = Tail(@)] ELSE ln[i]]
    IN  IF \E k \in DOMAIN gpios : Fd(ss[gpios[k]]) = PyNone
        THEN Outcome(ss, tab, ln, <<>>, <<>>, <<>>, Raised("TypeError"))
        ELSE [Outcome(ss, tab, ln1, PollCalls(ss, tab, gpios, results), <<>>, <<>>, Ok) EXCEPT !.val = results]

\* GPIO.poll_multiple(gpios, timeout) over the session objects ss: register
\* every descriptor, poll, gather the objects of the reported descriptors and
\* rewind those that are instances of SysfsGPIO.
poll_multiple(ss, tab, ln, gpios, timeout) ==
    LET ev == PollEvents(ss, tab, ln, gpios)
        results == [j \in DOMAIN ev |-> gpios[LastReg(ss, gpios, Fd(ss[gpios[ev[j]]]))]]
        rewound == {Fd(ss[results[j]]) : j \in {j \in DOMAIN results : IsSysfsInstance(ss[results[j]])}}
        tab1 == [n \in FdNums |-> IF n \in rewound /\ IsOpen(tab, n) THEN [tab[n] EXCEPT !.off = 0] ELSE tab[n]]
        calls == PollCalls(ss, tab, gpios, results)
    IN  IF \E k \in DOMAIN gpios : Fd(ss[gpios[k]]) = PyNone
        THEN Outcome(ss, tab, ln, <<>>, <<>>, <<>>, Raised("TypeError"))
        ELSE IF \E n \in rewound : ~IsOpen(tab, n)
        THEN Outcome(ss, tab1, ln, calls, <<>>, <<>>, GPIOError("Rewinding GPIO"))
        ELSE [Outcome(ss, tab1, ln, calls, <<>>, <<>>, Ok) EXCEPT !.val = results]

\* The caller polls the session objects gpios.  A wait without limit returns
\* only once a descriptor is reported.
PollMultiple(gpios, timeout) ==
    /\ \A k \in DOMAIN gpios : sess[gpios[k]].phase \in {"open", "closed"}
    /\ LET r == poll_multiple(sess, fdtab, line, gpios, timeout)
       IN  /\ ~(PollTimeoutMs(timeout) < 0 /\ r.ret = Ok /\ r.val = <<>>)
           /\ fdtab' = r.tab
           /\ line' = r.ln
           /\ last' = [Log("poll_multiple", 0, "", r) EXCEPT
                            !.gpios = gpios, !.timeout = timeout,
                            !.prev = IF last.op = "poll_multiple" /\ last.gpios = gpios /\ last.ret = Ok
                                     THEN <<"poll_multiple", last.val>>
                                     ELSE <<>>]
    /\ UNCHANGED <<kernel, sess, sysfs>>

\* ------------------------------------------------------- _find_line_by_name
\* The loop over the lines of the chip from offset i on: names[i + 1] is the
\* name the kernel reports for offset i.  It stops at the first offset whose
\* name equals the name asked for, as Python compares strings.
RECURSIVE FirstMatch(_, _, _)
FirstMatch(names, name, i) ==
    IF i >= Len(names) THEN [found |-> FALSE, i |-> i]
    ELSE IF names[i + 1] = name THEN [found |-> TRUE, i |-> i]
    ELSE FirstMatch(names, name, i + 1)

\* What a lookup did: the descriptor table after it, the system calls it
\* made, how it ended and what it returned.
Lookup(tab, calls, ret, val) ==
    [Outcome(NoSession, tab, line, calls, <<>>, <<>>, ret) EXCEPT !.val = val]

\* A _find_line_by_name that raises LookupError as soon as the loop has
\* found nothing, with the chip still open.
find_line_by_name_keeps_chip(tab, names, name, f) ==
    LET n == AllocFd(tab)
        tab1 == [tab EXCEPT ![n] = Slot("chip", 0, 0)]
        m == FirstMatch(names, name, 0)
        queries == IF m.found THEN m.i + 1 ELSE Len(names)
        open == <<Call("os.open(path)", n, TRUE), Call("GET_CHIPINFO", n, TRUE)>>
        loop == [k \in 1..queries |-> Call("GET_LINEINFO", n, TRUE)]
    IN  IF f = "open" \/ ~HasFree(tab)
        THEN Lookup(tab, <<Call("os.open(path)", PyNone, FALSE)>>, GPIOError("Opening GPIO chip"), <<>>)
        ELSE IF f = "chipinfo"
        THEN Lookup(tab1, <<Call("os.open(path)", n, TRUE), Call("GET_CHIPINFO", n, FALSE)>>,
                    GPIOError("Querying GPIO chip info"), <<>>)
        ELSE IF f = "lineinfo" /\ names # <<>>
        THEN Lookup(tab1, open \o <<Call("GET_LINEINFO", n, FALSE)>>,
                    GPIOError("Querying GPIO line info"), <<>>)
        ELSE IF ~m.found
        THEN Lookup(tab1, open \o loop, Raised("LookupError"), <<>>)
        ELSE IF f = "close"
        THEN Lookup([tab1 EXCEPT ![n] = FreeSlot], open \o loop \o <<Call("os.close(fd)", n, FALSE)>>,
                    GPIOError("Closing GPIO chip"), <<>>)
        ELSE Lookup([tab1 EXCEPT ![n] = FreeSlot], open \o loop \o <<Call("os.close(fd)", n, TRUE)>>,
                    Ok, <<m.i>>)

\* _find_line_by_name(path, line) on a chip whose lines have the names
\* given: open the chip, ask for the number of lines, ask for the name of
\* each line in turn until one matches, close the chip, return the offset or
\* raise LookupError.  f is the system call that fails: "open", "chipinfo",
\* "lineinfo" (the first query), "close" or "none".
find_line_by_name(tab, names, name, f) ==
    LET n == AllocFd(tab)
        tab1 == [tab EXCEPT ![n] = Slot("chip", 0, 0)]
        m == FirstMatch(names, name, 0)
        queries == IF m.found THEN m.i + 1 ELSE Len(names)
        open == <<Call("os.open(path)", n, TRUE), Call("GET_CHIPINFO", n, TRUE)>>
        loop == [k \in 1..queries |-> Call("GET_LINEINFO", n, TRUE)]
    IN  IF f = "open" \/ ~HasFree(tab)
        THEN Lookup(tab, <<Call("os.open(path)", PyNone, FALSE)>>, GPIOError("Opening GPIO chip"), <<>>)
        ELSE IF f = "chipinfo"
        THEN Lookup(tab1, <<Call("os.open(path)", n, TRUE), Call("GET_CHIPINFO", n, FALSE)>>,
                    GPIOError("Querying GPIO chip info"), <<>>)
        ELSE IF f = "lineinfo" /\ names # <<>>
        THEN Lookup(tab1, open \o <<Call("GET_LINEINFO", n, FALSE)>>,
                    GPIOError("Querying GPIO line info"), <<>>)
        ELSE IF f = "close"
        THEN Lookup([tab1 EXCEPT ![n] = FreeSlot], open \o loop \o <<Call("os.close(fd)", n, FALSE)>>,
                    GPIOError("Closing GPIO chip"), <<>>)
        ELSE IF m.found
        THEN Lookup([tab1 EXCEPT ![n] = FreeSlot], open \o loop \o <<Call("os.close(fd)", n, TRUE)>>,
                    Ok, <<m.i>>)
        ELSE Lookup([tab1 EXCEPT ![n] = FreeSlot], open \o loop \o <<Call("os.close(fd)", n, TRUE)>>,
                    Raised("LookupError"), <<>>)

\* The caller looks a line up by name; the log keeps the names of the chip
\* in cfg and the name asked for in arg.
FindLineByName(names, name, f) ==
    LET r == find_line_by_name(fdtab, names, name, f)
    IN  /\ fdtab' = r.tab
        /\ last' = [Log("_find_line_by_name", 0, name, r) EXCEPT !.cfg = names]
        /\ UNCHANGED <<kernel, sess, line, sysfs>>

\* ------------------------------------------------------------------- poll
\* p.poll with the single descriptor n registered under mask reports it.
Reported(tab, ln, n, mask) ==
    Revents(tab, ln, n) \cap (mask \cup {"POLLERR", "POLLHUP", "POLLNVAL"}) # {}

\* A poll() of a character-device session that registers the line descriptor
\* with the mask the sysfs sessions use.
cdev_poll_priority_mask(s, tab, ln, timeout) ==
    LET n == s.line_fd
    IN  IF s.direction # "in"
        THEN Outcome(s, tab, ln, <<>>, <<>>, <<>>, GPIOError("Invalid operation: cannot poll output GPIO"))
        ELSE IF n = PyNone THEN Outcome(s, tab, ln, <<>>, <<>>, <<>>, Raised("TypeError"))
        ELSE [Outcome(s, tab, ln, <<Call("register(POLLPRI|POLLERR)", n, TRUE)>>, <<>>, <<>>, Ok)
                EXCEPT !.val = <<Str(Reported(tab, ln, n, {"POLLPRI", "POLLERR"}))>>]

\* poll(timeout) of a character-device session, as it ends when p.poll
\* returns in the state given: the check of the cached direction, the
\* registration of the line descriptor (p.register raises TypeError for
\* None), and len(events) > 0.
cdev_poll(s, tab, ln, timeout) ==
    LET n == s.line_fd
    IN  IF s.direction # "in"
        THEN Outcome(s, tab, ln, <<>>, <<>>, <<>>, GPIOError("Invalid operation: cannot poll output GPIO"))
        ELSE IF n = PyNone THEN Outcome(s, tab, ln, <<>>, <<>>, <<>>, Raised("TypeError"))
        ELSE [Outcome(s, tab, ln, <<Call("register(POLLIN|POLLPRI|POLLERR)", n, TRUE)>>, <<>>, <<>>, Ok)
                EXCEPT !.val = <<Str(Reported(tab, ln, n, {"POLLIN", "POLLPRI", "POLLERR"}))>>]

\* poll(timeout) of a sysfs session, as it ends when p.poll returns in the
\* state given: the registration of the value descriptor, and when p.poll
\* reports it the rewind.
sysfs_poll(s, tab, sy, timeout) ==
    LET n == s.fd
        reg == Call("register(POLLPRI|POLLERR)", n, TRUE)
    IN  IF n = PyNone THEN SysfsOutcome(s, tab, sy, <<>>, Raised("TypeError"))
        ELSE IF ~Reported(tab, line, n, {"POLLPRI", "POLLERR"})
        THEN [SysfsOutcome(s, tab, sy, <<reg>>, Ok) EXCEPT !.val = <<"False">>]
        ELSE IF ~IsOpen(tab, n)
        THEN SysfsOutcome(s, tab, sy, <<reg, Call("os.lseek(fd)", n, FALSE)>>, GPIOError("Rewinding GPIO"))
        ELSE [SysfsOutcome(s, [tab EXCEPT ![n].off = 0], sy, <<reg, Call("os.lseek(fd)", n, TRUE)>>, Ok)
                EXCEPT !.val = <<"True">>]

\* ------------------------------------------------------------ specification
IdleLine ==
    [requested |-> FALSE, ioctl |-> "", flags |-> {}, eventflags |-> {}, events |-> <<>>, level |-> FALSE]


Init ==
    /\ kernel \in KernelVersions
    /\ sess = [i \in Sessions |-> NoSession]
    /\ fdtab = [n \in FdNums |-> FreeSlot]
    /\ line = [i \in Sessions |-> IdleLine]
    /\ sysfs = [l \in Lines |-> AbsentLine]
    /\ last = NoCall

\* The constructors the single-session specification calls: the factory
\* GPIO(path, line, direction), which is the way to the v1 session of gpio.py,
\* and the v2 class.
CdevCtors == {"GPIO", "gpio_cdev2.Cdev2GPIO"}

\* The bias values it passes: the default and one that sets a flag.
BiasArgs == {"default", "pull_up"}

OpenFailures == {"none", "open", "request"}
ReopenFailures == {"none", "close", "request"}
CloseFailures == {"none", "line", "chip"}

\* The caller constructs session i.
Construct(i) ==
    /\ sess[i].phase = "none"
    /\ \E ctor \in CdevCtors, d \in Directions, e \in Edges, b \in BiasArgs, dr \in Drives,
          inv \in BOOLEAN, f \in OpenFailures :
            ConstructCdev(i, ctor, d, e, b, dr, inv, f)

\* The caller assigns one of the five properties of session i.
Mutate(i) ==
    \E f \in ReopenFailures :
        \/ \E d \in Directions : SetDirection(i, d, f)
        \/ \E e \in Edges : SetEdge(i, e, f)
        \/ \E b \in BiasArgs : SetBias(i, b, f)
        \/ \E dr \in Drives : SetDrive(i, dr, f)
        \/ \E inv \in BOOLEAN : SetInverted(i, inv, f)

\* One character-device session, every constructor, every configuration.
Next ==
    \/ Construct(1)
    \/ Mutate(1)
    \/ \E f \in CloseFailures : CdevClose(1, f)

Spec == Init /\ [][Next]_vars

\* ------------------------------------------- specification: sysfs sessions
\* The constructors of the sysfs specification: the factory GPIO(line,
\* direction), which is the way to the sysfs session of gpio.py, and the
\* class of gpio_sysfs.py.
SysfsCtors == {"GPIO", "gpio_sysfs.SysfsGPIO"}

\* The check of the export loop at which the directory is first seen: the
\* first, the last, none.
DirAtArgs == {1, GPIO_STAT_RETRIES, GPIO_STAT_RETRIES + 1}

\* The attempts on the direction attribute that fail with EACCES: none, all
\* but the last, all.
EaccesArgs == {0, GPIO_STAT_RETRIES - 1, GPIO_STAT_RETRIES}

\* The directions it passes: an input and an output.
SysfsDirections == {"in", "out"}

SysfsOpenFailures == {"none", "export", "direction", "value", "setdir", "inverted"}
SysfsCloseFailures == {"none", "close", "unexport"}

\* The caller constructs sysfs session i on some line.
SysfsConstruct(i) ==
    /\ sess[i].phase = "none"
    /\ \E ctor \in SysfsCtors, l \in Lines, d \in SysfsDirections, dirAt \in DirAtArgs,
          eacces \in EaccesArgs, unread \in BOOLEAN, f \in SysfsOpenFailures :
            ConstructSysfs(i, ctor, l, d, dirAt, eacces, unread, f)

\* Somebody else (another process, a boot script) exports line l.
ExternalExport(l) ==
    /\ ~sysfs[l].present
    /\ sysfs' = [sysfs EXCEPT ![l] = ExportedLine]
    /\ last' = [NoCall EXCEPT !.op = "export"]
    /\ UNCHANGED <<kernel, sess, fdtab, line>>

\* Session 1 is the character-device session of the other specifications.
SysfsSessions == Sessions \ {1}

\* Sysfs sessions of both classes on shared line numbers, each object opened
\* once and closed any number of times.
NextSysfs ==
    \/ \E i \in SysfsSessions : SysfsConstruct(i)
    \/ \E i \in SysfsSessions, f \in SysfsCloseFailures : SysfsClose(i, f)
    \/ \E l \in Lines : ExternalExport(l)

\* The kernel version plays no part in the sysfs sessions.
InitSysfs == Init /\ kernel = <<6, 1>>

SpecSysfs == InitSysfs /\ [][NextSysfs]_vars

\* ------------------------------------------------ specification: polling
\* The character-device constructors of the polling specification.
PollCdevCtors == {"gpio_cdev1.Cdev1GPIO", "gpio_cdev2.Cdev2GPIO"}

\* The edges its sessions ask for.
PollEdges == {"rising"}

\* The timeouts it passes: -1 (a wait without limit; None is the same) and 1
\* (a second).
Timeouts == {-1, 1}

\* The lists of sessions it passes: every list of distinct sessions in
\* ascending order, and a list that names one session twice.
PollArgs ==
    {gpios \in UNION {[1..n -> Sessions] : n \in 0..NSessions} :
        \/ \A j, k \in DOMAIN gpios : j < k => gpios[j] < gpios[k]
        \/ Len(gpios) = 2 /\ gpios[1] = gpios[2]}

\* The caller constructs input session i: session 1 a character-device
\* session that asks for edges, session 2 a sysfs session of gpio.py, the
\* others sysfs sessions of gpio_sysfs.py, each sysfs session on a line
\* number of its own.
PollOpen(i) ==
    /\ sess[i].phase = "none"
    /\ IF i = 1
       THEN \E ctor \in PollCdevCtors, e \in PollEdges :
                ConstructCdev(i, ctor, "in", e, "default", "default", FALSE, "none")
       ELSE \E l \in Lines, unread \in BOOLEAN :
                /\ l = i - 1
                /\ ConstructSysfs(i, IF i = 2 THEN "GPIO" ELSE "gpio_sysfs.SysfsGPIO", l, "in", 1, 0,
                                  unread, "none")

PollSetEdge(i) == \E e \in PollEdges : SysfsSetEdge(i, e)

\* Open input sessions of every class, edges from the world, polls and reads.
NextPoll ==
    \/ \E i \in Sessions : PollOpen(i)
    \/ \E i \in Sessions : PollSetEdge(i)
    \/ \E i \in Sessions : CdevEdge(i)
    \/ \E l \in Lines : SysfsEdge(l)
    \/ \E i \in Sessions : ReadEvent(i)
    \/ \E i \in Sessions : SysfsRead(i)
    \/ \E gpios \in PollArgs, timeout \in Timeouts : PollMultiple(gpios, timeout)

\* On a kernel that has both request paths.
InitPoll == Init /\ kernel = <<6, 1>>

SpecPoll == InitPoll /\ [][NextPoll]_vars

\* ------------------------------------------------ specification: line values
\* The character-device constructors of the value specification.
ValueCdevCtors == {"GPIO", "gpio_cdev2.Cdev2GPIO"}

\* The caller constructs session i with any direction: session 1 a
\* character-device session, inverted or not, with the default edge, bias and
\* drive; session 2 a sysfs session on line 1.
ValueOpen(i) ==
    /\ sess[i].phase = "none"
    /\ \/ /\ i = 1
          /\ \E ctor \in ValueCdevCtors, d \in Directions, inv \in BOOLEAN :
                ConstructCdev(i, ctor, d, "none", "default", "default", inv, "none")
       \/ /\ i = 2
          /\ \E ctor \in SysfsCtors, d \in Directions :
                ConstructSysfs(i, ctor, 1, d, 1, 0, FALSE, "none")

ValueSetDirection(i) ==
    \E d \in Directions : SetDirection(i, d, "none") \/ SysfsSetDirection(i, d)

ValueSetInverted(i) ==
    \E inv \in BOOLEAN : SetInverted(i, inv, "none") \/ SysfsSetInverted(i, inv)

ValueWrite(i) == \E v \in BOOLEAN : CdevWrite(i, v) \/ SysfsWrite(i, v)

ValueRead(i) == CdevRead(i) \/ SysfsRead(i)

\* The world changes the level of the pin of an input line: the line
\* character-device session i has requested, or exported sysfs line i.
WorldLevel(i) ==
    /\ \/ /\ line[i].requested /\ "INPUT" \in line[i].flags
          /\ line' = [line EXCEPT ![i].level = ~@]
          /\ UNCHANGED sysfs
       \/ /\ i \in Lines /\ sysfs[i].present /\ sysfs[i].direction = "in"
          /\ sysfs' = [sysfs EXCEPT ![i].level = ~@]
          /\ UNCHANGED line
    /\ last' = [NoCall EXCEPT !.op = "level"]
    /\ UNCHANGED <<kernel, sess, fdtab>>

\* Sessions of both backends: directions, inversions, writes and reads.
NextValue ==
    \/ \E i \in Sessions : ValueOpen(i)
    \/ \E i \in Sessions : ValueSetDirection(i)
    \/ \E i \in Sessions : ValueSetInverted(i)
    \/ \E i \in Sessions : ValueWrite(i)
    \/ \E i \in Sessions : ValueRead(i)
    \/ \E i \in Sessions : WorldLevel(i)

InitValue == Init /\ kernel = <<6, 1>>

SpecValue == InitValue /\ [][NextValue]_vars

\* ------------------------------------------------ specification: waiting
\* timeout *= 1000: the milliseconds of a second, the unit of timeout.
Second == 1000

\* The timeouts the waiting specification passes: -1 (a wait without limit;
\* None is the same), 0 and a positive number of seconds.
WaitTimeouts == {-1, 0, MaxTimeout}

\* The lists it passes to poll_multiple.
WaitPollArgs == {<<2>>, <<1, 2>>}

\* The edges input session B asks for.
WaitEdges == {"none", "both"}

\* The directions output session A is opened with.
WaitDirections == {"out", "high"}

\* How a call stands that has not returned: the caller is inside p.poll or
\* os.read.
NotReturned == [exc |-> "not returned", msg |-> ""]

\* The caller is inside no call.
Idle == last.ret # NotReturned

\* What call op ends as when p.poll or os.read returns in the current state.
Result(op, i, gpios, timeout) ==
    IF op = "poll_multiple" THEN poll_multiple(sess, fdtab, line, gpios, timeout)
    ELSE IF op = "read_event" THEN cdev_read_event(sess[i], fdtab, line)
    ELSE IF sess[i].cls \in SysfsClasses THEN sysfs_poll(sess[i], fdtab, sysfs, timeout)
    ELSE cdev_poll(sess[i], fdtab, line, timeout)

\* Call op, in progress for waited milliseconds, stays inside the system
\* call: os.read has no event to read; p.poll has no descriptor to report and
\* its timeout in milliseconds is negative or has not run out.
Waits(op, i, gpios, timeout, waited) ==
    IF op = "read_event" THEN NothingToRead(i)
    ELSE LET r == Result(op, i, gpios, timeout)
         IN  /\ r.ret = Ok
             /\ IF op = "poll" THEN r.val = <<"False">> ELSE r.val = <<>>
             /\ PollTimeoutMs(timeout) < 0 \/ waited < PollTimeoutMs(timeout)

\* The call returns or raises; seen is what the loopback did while it waited.
Finish(op, i, gpios, timeout, waited, seen) ==
    LET r == Result(op, i, gpios, timeout)
    IN  /\ fdtab' = r.tab
        /\ line' = r.ln
        /\ sysfs' = r.sy
        /\ last' = [Log(op, i, "", r) EXCEPT !.gpios = gpios, !.timeout = timeout, !.waited = waited,
                                             !.prev = seen]
        /\ UNCHANGED <<kernel, sess>>

\* The caller enters the call: it ends at once, or the caller stays inside.
Begin(op, i, gpios, timeout) ==
    /\ Idle
    /\ IF Waits(op, i, gpios, timeout, 0)
       THEN /\ last' = [NoCall EXCEPT !.op = op, !.i = i, !.ret = NotReturned, !.gpios = gpios,
                                      !.timeout = timeout]
            /\ UNCHANGED <<kernel, sess, fdtab, line, sysfs>>
       ELSE Finish(op, i, gpios, timeout, 0, <<>>)

WaitPoll(i, timeout) == sess[i].phase = "open" /\ Begin("poll", i, <<>>, timeout)

WaitPollMultiple(gpios, timeout) ==
    /\ \A k \in DOMAIN gpios : sess[gpios[k]].phase = "open"
    /\ Begin("poll_multiple", 0, gpios, timeout)

WaitReadEvent(i) == IsOpenCdev(i) /\ Begin("read_event", i, <<>>, 0)

\* The system call the caller is inside returns.
Return ==
    /\ ~Idle
    /\ ~Waits(last.op, last.i, last.gpios, last.timeout, last.waited)
    /\ Finish(last.op, last.i, last.gpios, last.timeout, last.waited, last.prev)

\* A second passes while the caller is inside a system call.
Tick ==
    /\ ~Idle
    /\ Waits(last.op, last.i, last.gpios, last.timeout, last.waited)
    /\ last.waited < MaxTimeout * Second
    /\ last' = [last EXCEPT !.waited = @ + Second]
    /\ UNCHANGED <<kernel, sess, fdtab, line, sysfs>>

\* The loopback of the tests: the pin of line A, the line of session 1, is
\* wired to the pin of line B, the line of session 2.  A character-device
\* session i has line[i], a sysfs session i line number i.
ADrives(ss, ln, sy) ==
    IF ss[1].cls \in SysfsClasses THEN sy[1].present /\ sy[1].direction = "out"
    ELSE ln[1].requested /\ "OUTPUT" \in ln[1].flags

APin(ss, ln, sy) == IF ss[1].cls \in SysfsClasses THEN sy[1].level ELSE ln[1].level

BPin(ss, ln, sy) == IF ss[2].cls \in SysfsClasses THEN sy[2].level ELSE ln[2].level

\* The edge of a change of level, none when the level stays.
Transition(old, new) == IF old = new THEN <<>> ELSE IF new THEN <<"rising">> ELSE <<"falling">>

\* The pin of B follows the pin of A while A drives it.  When notify holds
\* the kernel sees the change: it queues the edge on the line descriptor of
\* B at clock reading ts and notifies the value files open on B.
Loopback(ss, tab, ln, sy, ts, notify) ==
    LET pin == APin(ss, ln, sy)
        cdevEdge == Transition(ln[2].level, pin)
        sysfsEdge == Transition(sy[2].level, pin)
        wanted == IF ln[2].ioctl = "GPIO_GET_LINEHANDLE" THEN {} ELSE WantedEdges(ln[2])
        queued == notify /\ cdevEdge # <<>> /\ ln[2].requested /\ "INPUT" \in ln[2].flags
        notified == /\ notify /\ sysfsEdge # <<>> /\ sy[2].present /\ sy[2].direction = "in"
                    /\ sy[2].edge \in {"both", sysfsEdge[1]}
    IN  IF ~ADrives(ss, ln, sy) THEN [tab |-> tab, ln |-> ln, sy |-> sy]
        ELSE [tab |-> [n \in FdNums |->
                         IF notified /\ tab[n].kind = "value" /\ tab[n].of = 2
                         THEN [tab[n] EXCEPT !.pri = TRUE] ELSE tab[n]],
              ln |-> [ln EXCEPT ![2].level = pin,
                                ![2].events = IF queued THEN Enqueue(@, cdevEdge[1], wanted, ts) ELSE @],
              sy |-> [sy EXCEPT ![2].level = pin]]

\* The state after a call on session i that ended as r, with the loopback.
\* A call made while the caller of another is inside a system call leaves
\* the log to that one, which notes the first edge on B it waited through.
WaitApply(op, i, arg, r, ts, notify) ==
    LET ss == [sess EXCEPT ![i] = [r.s EXCEPT !.phase = "open"]]
        w == Loopback(ss, r.tab, r.ln, r.sy, ts, notify)
        seen == IF ADrives(ss, r.ln, r.sy)
                THEN Transition(BPin(ss, r.ln, r.sy), APin(ss, r.ln, r.sy)) ELSE <<>>
    IN  /\ sess' = ss
        /\ fdtab' = w.tab
        /\ line' = w.ln
        /\ sysfs' = w.sy
        /\ last' = IF Idle THEN Log(op, i, arg, r)
                   ELSE [last EXCEPT !.prev = IF @ = <<>> THEN seen ELSE @]
        /\ UNCHANGED kernel

\* The caller constructs session 1, output A, or session 2, input B, on
\* either backend, not inverted.
WaitOpen(i) ==
    /\ Idle /\ sess[i].phase = "none"
    /\ \E ts \in Stamps :
        \/ /\ i = 1
           /\ \E ctor \in ValueCdevCtors, d \in WaitDirections :
                WaitApply("open", i, ctor,
                          cdev_open(i, NewCdev(ClassOf(ctor, 3)), fdtab, line, kernel,
                                    d, "none", "default", "default", FALSE, "none"), ts, FALSE)
        \/ /\ i = 1
           /\ \E ctor \in SysfsCtors, d \in WaitDirections :
                WaitApply("open", i, ctor,
                          sysfs_open(i, ClassOf(ctor, 2), NewSysfs(ClassOf(ctor, 2)), fdtab, sysfs,
                                     i, d, 1, 0, FALSE, "none"), ts, FALSE)
        \/ /\ i = 2
           /\ \E ctor \in ValueCdevCtors, e \in WaitEdges :
                WaitApply("open", i, ctor,
                          cdev_open(i, NewCdev(ClassOf(ctor, 3)), fdtab, line, kernel,
                                    "in", e, "default", "default", FALSE, "none"), ts, FALSE)
        \/ /\ i = 2
           /\ \E ctor \in SysfsCtors :
                WaitApply("open", i, ctor,
                          sysfs_open(i, ClassOf(ctor, 2), NewSysfs(ClassOf(ctor, 2)), fdtab, sysfs,
                                     i, "in", 1, 0, FALSE, "none"), ts, FALSE)

\* The caller assigns edge "both" to sysfs session B.
WaitSetEdge(i) ==
    /\ Idle /\ i = 2 /\ IsOpenSysfs(i)
    /\ \E ts \in Stamps :
            WaitApply("edge", i, "both", sysfs_set_edge(sess[i], fdtab, sysfs, "both"), ts, FALSE)

\* A thread writes a level to output session A, whatever the caller of B is
\* inside.
WaitWrite(i) ==
    /\ i = 1 /\ sess[i].phase = "open"
    /\ \E v \in BOOLEAN, ts \in Stamps :
            WaitApply("write", i, Str(v),
                      IF sess[i].cls \in SysfsClasses THEN sysfs_write(sess[i], fdtab, sysfs, v)
                      ELSE cdev_write(sess[i], fdtab, line, v), ts, TRUE)

\* The caller reads the level of a session.
WaitRead(i) ==
    /\ Idle /\ sess[i].phase = "open"
    /\ \E ts \in Stamps :
            WaitApply("read", i, "",
                      IF sess[i].cls \in SysfsClasses THEN sysfs_read(sess[i], fdtab, sysfs)
                      ELSE cdev_read(sess[i], fdtab, line), ts, FALSE)

\* The loopback pair on either backend: writes to A, and on B polls, reads
\* and reads of events that wait inside their system call.
NextWait ==
    \/ \E i \in Sessions : WaitOpen(i)
    \/ \E i \in Sessions : WaitSetEdge(i)
    \/ \E i \in Sessions : WaitWrite(i)
    \/ \E i \in Sessions : WaitRead(i)
    \/ \E i \in Sessions, timeout \in WaitTimeouts : WaitPoll(i, timeout)
    \/ \E gpios \in WaitPollArgs, timeout \in WaitTimeouts : WaitPollMultiple(gpios, timeout)
    \/ \E i \in Sessions : WaitReadEvent(i)
    \/ Tick
    \/ Return

InitWait == Init /\ kernel = <<6, 1>>

SpecWait == InitWait /\ [][NextWait]_vars

\* The loopback alone: writes to A, and on B polls, reads and reads of
\* events.
NextLoopback ==
    \/ \E i \in Sessions : WaitOpen(i)
    \/ \E i \in Sessions : WaitSetEdge(i)
    \/ \E i \in Sessions : WaitWrite(i)
    \/ \E i \in Sessions : WaitRead(i)
    \/ \E i \in Sessions, timeout \in WaitTimeouts : WaitPoll(i, timeout)
    \/ \E i \in Sessions : WaitReadEvent(i)
    \/ Tick
    \/ Return

\* The system call the caller is inside returns when it can: the kernel
\* wakes the caller of p.poll and os.read.
SpecLoopback == InitWait /\ [][NextLoopback]_vars /\ WF_vars(Return)

\* ------------------------------------------------ specification: bring-up
\* SysfsGPIO._GPIO_STAT_DELAY, SysfsGPIO.GPIO_OPEN_DELAY, in milliseconds.
GPIO_STAT_DELAY == 100

\* A loop that never leaves by its counter.
WhileTrue(i) == TRUE

\* for i in range(_GPIO_STAT_RETRIES): the loop goes round with counter i.
InRange(i) == i < GPIO_STAT_RETRIES

\* The errors open() of the direction attribute fails with: EACCES while the
\* udev rules have not been applied, and one of another kind.
DirectionErrnos == {"EACCES", "EIO"}

\* The except clause of the second loop: the error of attempt i is raised
\* when it is not EACCES, and when it is EACCES on the last attempt.
DirectionRaises(errno, i) ==
    errno # "EACCES" \/ (errno = "EACCES" /\ i = GPIO_STAT_RETRIES - 1)

\* The log of an _open that is inside one of its two loops: loop is "stat"
\* or "direction", i the loop's counter, checks the os.path.isdir checks the
\* first loop has made, slept the milliseconds spent in time.sleep.
InLoop(s, ctor, l, direction, loop, i, checks, slept) ==
    [NoCall EXCEPT !.op = "open", !.i = s, !.arg = ctor, !.cfg = <<l, direction>>,
                   !.ret = NotReturned, !.prev = <<loop, i, checks>>, !.waited = slept]

\* _open of session s leaves its loops and ends as sysfs_open does when the
\* directory was seen at check dirAt, eacces attempts on the direction
\* attribute failed with EACCES, and f failed for a reason of its own.
LeaveLoops(s, ctor, l, direction, dirAt, eacces, f, where, slept) ==
    LET c == ClassOf(ctor, 2)
        r == sysfs_open(s, c, NewSysfs(c), fdtab, sysfs, l, direction, dirAt, eacces, FALSE, f)
    IN  /\ sess' = [sess EXCEPT ![s] = [r.s EXCEPT !.phase = IF r.ret = Ok THEN "open" ELSE "failed"]]
        /\ fdtab' = r.tab
        /\ line' = r.ln
        /\ sysfs' = r.sy
        /\ last' = [Log("open", s, ctor, r) EXCEPT !.cfg = <<l, direction>>, !.prev = where,
                                                   !.waited = slept]
        /\ UNCHANGED kernel

\* ctor(line, direction) of session s on line s - 1: the directory is there
\* and _open has no loop to go through; or the write to export fails; or it
\* succeeds and _open enters the first loop.
BringUpOpen(s) ==
    /\ Idle /\ sess[s].phase = "none" /\ s - 1 \in Lines
    /\ \E ctor \in SysfsCtors, direction \in SysfsDirections, exportOk \in BOOLEAN :
        IF sysfs[s - 1].present \/ ~exportOk
        THEN LeaveLoops(s, ctor, s - 1, direction, 1, 0, IF exportOk THEN "none" ELSE "export", <<>>, 0)
        ELSE /\ last' = InLoop(s, ctor, s - 1, direction, "stat", 0, 0, 0)
             /\ sess' = [sess EXCEPT ![s] = [NewSysfs(ClassOf(ctor, 2)) EXCEPT !.phase = "new"]]
             /\ UNCHANGED <<kernel, fdtab, line, sysfs>>

\* One round of the first loop: os.path.isdir finds the directory, and the
\* loop is left for the second; or it does not, and _open sleeps, and when
\* the counter has run out raises TimeoutError.
StatStep ==
    /\ last.op = "open" /\ last.ret = NotReturned /\ last.prev[1] = "stat"
    /\ LET i == last.prev[2]
           checks == last.prev[3] + 1
       IN  \E isdir \in BOOLEAN :
            IF isdir
            THEN /\ last' = [last EXCEPT !.prev = <<"direction", 0, checks>>]
                 /\ UNCHANGED <<kernel, sess, fdtab, line, sysfs>>
            ELSE IF InRange(i + 1)
            THEN /\ last' = [last EXCEPT !.prev = <<"stat", i + 1, checks>>,
                                         !.waited = @ + GPIO_STAT_DELAY]
                 /\ UNCHANGED <<kernel, sess, fdtab, line, sysfs>>
            ELSE LeaveLoops(last.i, last.arg, last.cfg[1], last.cfg[2], GPIO_STAT_RETRIES + 1, 0, "none",
                            <<"stat", i + 1, checks>>, last.waited + GPIO_STAT_DELAY)

\* One round of the second loop: the direction attribute opens, and _open
\* goes on to the value file; or it fails, and the error is raised or _open
\* sleeps and tries again.
DirectionStep ==
    /\ last.op = "open" /\ last.ret = NotReturned /\ last.prev[1] = "direction"
    /\ LET i == last.prev[2]
           checks == last.prev[3]
       IN  \/ LeaveLoops(last.i, last.arg, last.cfg[1], last.cfg[2], checks, i, "none",
                         <<"direction", i, checks>>, last.waited)
           \/ \E errno \in DirectionErrnos :
                IF DirectionRaises(errno, i)
                THEN LeaveLoops(last.i, last.arg, last.cfg[1], last.cfg[2], checks,
                                IF errno = "EACCES" THEN i + 1 ELSE i,
                                IF errno = "EACCES" THEN "none" ELSE "direction",
                                <<"direction", IF errno = "EACCES" THEN i + 1 ELSE i, checks>>, last.waited)
                ELSE /\ InRange(i + 1)
                     /\ last' = [last EXCEPT !.prev = <<"direction", i + 1, checks>>,
                                             !.waited = @ + GPIO_STAT_DELAY]
                     /\ UNCHANGED <<kernel, sess, fdtab, line, sysfs>>

\* Sysfs sessions opened on lines nobody has exported, the filesystem
\* answering each check and each attempt as it likes.
NextBringUp ==
    \/ \E s \in Sessions : BringUpOpen(s)
    \/ StatStep
    \/ DirectionStep

\* _open goes on: a check or an attempt that can be made is made.
SpecBringUp ==
    /\ InitSysfs /\ [][NextBringUp]_vars
    /\ WF_vars(StatStep) /\ WF_vars(DirectionStep)

\* ------------------------------------------- specification: unsupported calls
\* What the sysfs classes do not support: the bias and drive properties, read
\* and assigned, the chip_fd property and read_event().
UnsupportedOps == {"_get_bias", "_set_bias", "_get_drive", "_set_drive", "chip_fd", "read_event"}

\* The values assigned: a bias, a drive, a value of neither, None.
UnsupportedArgs == {"pull_up", "open_drain", "blah", "None"}

\* Accessors that answer for the sysfs interface as a line with no bias and
\* the default drive would, and raise for the rest.
sysfs_default_bias(s, tab, sy, op) ==
    IF op \in {"_get_bias", "_get_drive"}
    THEN [SysfsOutcome(s, tab, sy, <<>>, Ok) EXCEPT !.val = <<"default">>]
    ELSE SysfsOutcome(s, tab, sy, <<>>, Raised("NotImplementedError"))

\* SysfsGPIO._get_bias, _set_bias, _get_drive, _set_drive, chip_fd and
\* read_event: each is a single raise.
sysfs_unsupported(s, tab, sy, op) ==
    SysfsOutcome(s, tab, sy, <<>>, Raised("NotImplementedError"))

\* The caller uses one of them on sysfs object i, whatever became of it.
SysfsUnsupported(i, op, arg) ==
    /\ sess[i].cls \in SysfsClasses
    /\ sess[i].phase \in {"open", "closed", "failed"}
    /\ arg # "" <=> op \in {"_set_bias", "_set_drive"}
    /\ Apply(op, i, arg, sysfs_unsupported(sess[i], fdtab, sysfs, op), sess[i].phase)

\* One sysfs object of either class, constructed once, closed any number of
\* times, with the unsupported calls made on it in between.
NextUnsupported ==
    \/ SysfsConstruct(2)
    \/ \E f \in SysfsCloseFailures : SysfsClose(2, f)
    \/ \E op \in UnsupportedOps, arg \in UnsupportedArgs \cup {""} : SysfsUnsupported(2, op, arg)

SpecUnsupported == InitSysfs /\ [][NextUnsupported]_vars

\* ------------------------------------------------ specification: arguments
\* A Python value: its type and its text.
Py(type, v) == [type |-> type, v |-> v]

\* isinstance(x, types); bool is a subclass of int.
IsInstance(x, types) == x.type \in types \/ (x.type = "bool" /\ "int" \in types)

\* str.lower() on the strings passed here.
Lower(v) == IF v = "IN" THEN "in" ELSE v

\* The exception the checks in order raise: that of the first that fails,
\* "None" when none does.
FirstError(checks) ==
    IF \A k \in DOMAIN checks : checks[k] = "None" THEN "None"
    ELSE checks[CHOOSE k \in DOMAIN checks : checks[k] # "None" /\ \A j \in 1..(k - 1) : checks[j] = "None"]

\* if not isinstance(x, types): raise TypeError
CheckType(x, types) == IF IsInstance(x, types) THEN "None" ELSE "TypeError"

\* The pair of checks on a string of a closed set, as the character-device
\* classes make it: the string itself has to be in the set.
CheckIn(x, set) ==
    IF ~IsInstance(x, {"str"}) THEN "TypeError" ELSE IF x.v \notin set THEN "ValueError" ELSE "None"

\* The same as the sysfs classes make it: x.lower() has to be in the set.
CheckLowerIn(x, set) ==
    IF ~IsInstance(x, {"str"}) THEN "TypeError" ELSE IF Lower(x.v) \notin set THEN "ValueError" ELSE "None"

\* The checks at the head of Cdev*GPIO._open.
cdev_open_args(a) ==
    FirstError(<<CheckType(a.path, {"str"}), CheckType(a.line, {"int", "str"}),
                 CheckIn(a.direction, Directions), CheckIn(a.edge, Edges), CheckIn(a.bias, Biases),
                 CheckIn(a.drive, Drives), CheckType(a.inverted, {"bool"}),
                 CheckType(a.label, {"NoneType", "str"})>>)

\* The checks at the head of SysfsGPIO._open.
sysfs_open_args(a) ==
    FirstError(<<CheckType(a.line, {"int"}), CheckLowerIn(a.direction, Directions)>>)

\* The checks at the head of the setter of property p of a session of class c.
set_args(c, p, x) ==
    IF p = "inverted" THEN CheckType(x, {"bool"})
    ELSE LET set == IF p = "direction" THEN Directions ELSE IF p = "edge" THEN Edges
                    ELSE IF p = "bias" THEN Biases ELSE Drives
         IN  IF c \in SysfsClasses THEN CheckLowerIn(x, set) ELSE CheckIn(x, set)

\* A write() that takes whatever it is given for its truth value.
write_args_truthy(x) == "None"

\* The check at the head of write().
write_args(x) == CheckType(x, {"bool"})

\* The check at the head of poll().
poll_args(x) == CheckType(x, {"int", "float", "NoneType"})

\* The properties a session of class c can be assigned.
Mutators(c) == IF c \in SysfsClasses THEN {"direction", "edge", "inverted"} ELSE MutatorOps

\* The arguments a caller passes that are right.
GoodArgs ==
    [path |-> Py("str", "/dev/gpiochip0"), line |-> Py("int", "1"), direction |-> Py("str", "in"),
     edge |-> Py("str", "none"), bias |-> Py("str", "default"), drive |-> Py("str", "default"),
     inverted |-> Py("bool", "False"), label |-> Py("NoneType", "None")]

\* The values a caller passes in the place of one of them, or to a setter,
\* to write() or to poll(): strings of the closed sets, one in upper case, a
\* string of no set, and values of the other types.
ArgValues ==
    {Py("str", "in"), Py("str", "out"), Py("str", "IN"), Py("str", "both"), Py("str", "blah"),
     Py("int", "0"), Py("float", "0.0"), Py("bool", "True"), Py("bool", "False"),
     Py("NoneType", "None")}

\* The values tried for parameter p of a constructor: a line is given by
\* number, a path is not looked at before the chip is opened.
OpenArgValues(p) ==
    IF p = "line" THEN {x \in ArgValues : x.type # "str"} \cup {Py("int", "1")}
    ELSE IF p = "path" THEN {x \in ArgValues : x.type # "str"} \cup {Py("str", "/dev/gpiochip0")}
    ELSE IF p = "label" THEN {x \in ArgValues : x.type \notin {"str"}}
    ELSE ArgValues

\* The log of a call with argument x in the place of p.
ArgLog(op, i, p, x, r) == [Log(op, i, p, r) EXCEPT !.prev = <<p, x.type, x.v>>]

ArgApply(op, i, p, x, r, ph) ==
    /\ sess' = [sess EXCEPT ![i] = [r.s EXCEPT !.phase = ph]]
    /\ fdtab' = r.tab
    /\ line' = r.ln
    /\ sysfs' = r.sy
    /\ last' = ArgLog(op, i, p, x, r)
    /\ UNCHANGED kernel

\* The caller constructs session i with x in the place of parameter p:
\* session 1 through a character-device constructor, session 2 through a
\* sysfs constructor on line 1, one of the two in a run of the program.
\* When a check raises, the object is left with the attributes __init__
\* gave it.
ArgOpen(i, ctor, p, x) ==
    /\ \A j \in Sessions : sess[j].phase = "none"
    /\ x \in OpenArgValues(p)
    /\ LET a == [GoodArgs EXCEPT ![p] = x]
       IN  IF i = 1
           THEN /\ ctor \in CdevCtors
                /\ LET c == ClassOf(ctor, 3)
                       e == cdev_open_args(a)
                       r == IF e # "None" THEN Outcome(NewCdev(c), fdtab, line, <<>>, <<>>, <<>>, Raised(e))
                            ELSE cdev_open(i, NewCdev(c), fdtab, line, kernel, a.direction.v, a.edge.v,
                                           a.bias.v, a.drive.v, a.inverted.v = "True", "none")
                   IN  ArgApply("open", i, p, x, r, IF r.ret = Ok THEN "open" ELSE "failed")
           ELSE /\ ctor \in SysfsCtors /\ p \in {"line", "direction"}
                /\ LET c == ClassOf(ctor, 2)
                       e == sysfs_open_args(a)
                       r == IF e # "None" THEN SysfsOutcome(NewSysfs(c), fdtab, sysfs, <<>>, Raised(e))
                            ELSE sysfs_open(i, c, NewSysfs(c), fdtab, sysfs, 1, Lower(a.direction.v),
                                            1, 0, FALSE, "none")
                   IN  ArgApply("open", i, p, x, r, IF r.ret = Ok THEN "open" ELSE "failed")

\* The holder of session i, open or closed, assigns x to property p.
ArgSet(i, p, x) ==
    /\ sess[i].phase \in {"open", "closed"}
    /\ p \in Mutators(sess[i].cls)
    /\ LET s == sess[i]
           e == set_args(s.cls, p, x)
           r == IF e # "None" THEN Nothing(s, Raised(e))
                ELSE IF s.cls \in SysfsClasses
                THEN IF p = "direction" THEN sysfs_set_direction(s, fdtab, sysfs, Lower(x.v))
                     ELSE IF p = "edge" THEN sysfs_set_edge(s, fdtab, sysfs, Lower(x.v))
                     ELSE sysfs_set_inverted(s, fdtab, sysfs, x.v = "True")
                ELSE IF p = "direction" THEN set_direction(i, s, x.v, "none")
                ELSE IF p = "edge" THEN set_edge(i, s, x.v, "none")
                ELSE IF p = "bias" THEN set_bias(i, s, x.v, "none")
                ELSE IF p = "drive" THEN set_drive(i, s, x.v, "none")
                ELSE set_inverted(i, s, x.v = "True", "none")
       IN  /\ e = "None" => s.phase = "open"
           /\ ArgApply(p, i, p, x, r, s.phase)

\* The holder of session i, open or closed, calls write(x).
ArgWrite(i, x) ==
    /\ sess[i].phase \in {"open", "closed"}
    /\ LET s == sess[i]
           e == write_args(x)
           r == IF e # "None" THEN Nothing(s, Raised(e))
                ELSE IF s.cls \in SysfsClasses THEN sysfs_write(s, fdtab, sysfs, x.v = "True")
                ELSE cdev_write(s, fdtab, line, x.v = "True")
       IN  ArgApply("write", i, "value", x, r, s.phase)

\* The holder of session i, open or closed, calls poll(x); a timeout that
\* passes the check is zero.
ArgPoll(i, x) ==
    /\ sess[i].phase \in {"open", "closed"}
    /\ x.type # "NoneType" /\ x.v # "True"
    /\ LET s == sess[i]
           e == poll_args(x)
           r == IF e # "None" THEN Nothing(s, Raised(e))
                ELSE IF s.cls \in SysfsClasses THEN sysfs_poll(s, fdtab, sysfs, 0)
                ELSE cdev_poll(s, fdtab, line, 0)
       IN  ArgApply("poll", i, "timeout", x, r, s.phase)

ArgSessions == {1, 2}

ArgClose(i) == CdevClose(i, "none") \/ SysfsClose(i, "none")

NextArguments ==
    \/ \E i \in ArgSessions, ctor \in CdevCtors \cup SysfsCtors, p \in DOMAIN GoodArgs, x \in ArgValues \cup {Py("int", "1"), Py("str", "/dev/gpiochip0")} :
            ArgOpen(i, ctor, p, x)
    \/ \E i \in ArgSessions, p \in MutatorOps, x \in ArgValues : ArgSet(i, p, x)
    \/ \E i \in ArgSessions, x \in ArgValues : ArgWrite(i, x)
    \/ \E i \in ArgSessions, x \in ArgValues : ArgPoll(i, x)
    \/ \E i \in ArgSessions : ArgClose(i)

SpecArguments == InitSysfs /\ [][NextArguments]_vars

\* ------------------------------------- specification: a setter during poll
\* Two threads share character-device session 1, an input with edge "both":
\* one calls poll(), the other assigns edge.  poll() registers the number in
\* _line_fd and blocks in p.poll; _reopen closes that number, sets _line_fd
\* to None, and then asks for the line anew.  The log belongs to the poll
\* while it is blocked: prev holds the number it registered, and "closed"
\* once the setter has closed that number under it.
RaceTimeouts == {-1, MaxTimeout}

\* A setter that waits until no poll() is blocked.
MutatorAwaitsPoll(i) == Idle

\* What a setter waits for before it runs: nothing, no lock is taken.
MutatorMayRun(i) == TRUE

\* poll() is blocked on session i.
PollBlocked(i) == last.ret = NotReturned /\ last.op = "poll" /\ last.i = i

\* The edge the setter assigns: the other one of "none" and "both".
OtherEdge(e) == IF e = "both" THEN "none" ELSE "both"

RaceOpen(i) ==
    /\ Idle
    /\ \E ctor \in ValueCdevCtors :
            ConstructCdev(i, ctor, "in", "both", "default", "default", FALSE, "none")

\* poll(timeout) up to p.poll: it returns at once when the descriptor is
\* ready, and blocks otherwise.
RacePoll(i, timeout) ==
    /\ Idle /\ IsOpenCdev(i)
    /\ LET r == cdev_poll(sess[i], fdtab, line, timeout)
       IN  IF r.ret = Ok /\ r.val = <<"False">>
           THEN /\ last' = [NoCall EXCEPT !.op = "poll", !.i = i, !.ret = NotReturned,
                                          !.timeout = timeout, !.calls = r.calls,
                                          !.prev = <<sess[i].line_fd>>]
                /\ UNCHANGED <<kernel, sess, fdtab, line, sysfs>>
           ELSE /\ last' = [Log("poll", i, "", r) EXCEPT !.timeout = timeout]
                /\ UNCHANGED <<kernel, sess, fdtab, line, sysfs>>

\* The first half of _reopen in the setter: os.close(self._line_fd) and
\* self._line_fd = None.
RaceClose(i) ==
    /\ MutatorMayRun(i)
    /\ IsOpenCdev(i) /\ sess[i].line_fd # PyNone
    /\ LET n == sess[i].line_fd
       IN  /\ sess' = [sess EXCEPT ![i].line_fd = PyNone, ![i].phase = "reopening"]
           /\ fdtab' = TabAfterClose(fdtab, n)
           /\ line' = LinesAfterClose(fdtab, line, n)
           /\ last' = IF PollBlocked(i) /\ last.prev[1] = n
                      THEN [last EXCEPT !.prev = <<n, "closed">>]
                      ELSE IF Idle
                      THEN [NoCall EXCEPT !.op = "edge", !.i = i,
                                          !.calls = <<Call("os.close(line_fd)", n, TRUE)>>]
                      ELSE last
           /\ UNCHANGED <<kernel, sysfs>>

\* The second half: the line request, which the kernel grants or refuses,
\* and the cached configuration.
RaceRequest(i, f) ==
    /\ sess[i].phase = "reopening"
    /\ LET s == sess[i]
           r == reopen(i, s, fdtab, line, kernel, s.direction, OtherEdge(s.edge), s.bias, s.drive,
                       s.inverted, f)
       IN  /\ sess' = [sess EXCEPT ![i] = [r.s EXCEPT !.phase = "open"]]
           /\ fdtab' = r.tab
           /\ line' = r.ln
           /\ last' = IF Idle THEN Log("edge", i, OtherEdge(s.edge), r) ELSE last
           /\ UNCHANGED <<kernel, sysfs>>

\* The outside world pulses the line.
RaceEdge(i) ==
    /\ line[i].requested /\ "INPUT" \in line[i].flags
    /\ LET p == PulseEdges(line[i].level)
       IN  \E ts \in Stamps :
                line' = [line EXCEPT ![i].events =
                            Enqueue(Enqueue(@, p[1], WantedEdges(line[i]), ts), p[2], WantedEdges(line[i]), ts)]
    /\ UNCHANGED <<kernel, sess, fdtab, sysfs, last>>

\* Time passes for a blocked poll.
RaceTick ==
    /\ ~Idle
    /\ last.waited < MaxTimeout * Second
    /\ last' = [last EXCEPT !.waited = @ + Second]
    /\ UNCHANGED <<kernel, sess, fdtab, line, sysfs>>

\* p.poll returns.  On a descriptor nobody closed it returns when the
\* descriptor is ready or the timeout has passed; what it does once the
\* descriptor was closed under it is not defined, so it returns with either
\* answer at any time.
RaceReturn(v) ==
    /\ ~Idle
    /\ LET n == last.prev[1]
           ready == Reported(fdtab, line, n, {"POLLIN", "POLLPRI", "POLLERR"})
           late == last.timeout > 0 /\ last.waited >= PollTimeoutMs(last.timeout)
       IN  IF Len(last.prev) = 2 THEN TRUE
           ELSE (v /\ ready) \/ (~v /\ ~ready /\ late)
    /\ last' = [last EXCEPT !.ret = Ok, !.val = <<Str(v)>>]
    /\ UNCHANGED <<kernel, sess, fdtab, line, sysfs>>

NextRace ==
    \/ RaceOpen(1)
    \/ \E timeout \in RaceTimeouts : RacePoll(1, timeout)
    \/ RaceClose(1)
    \/ \E f \in {"none", "request"} : RaceRequest(1, f)
    \/ RaceEdge(1)
    \/ RaceTick
    \/ \E v \in BOOLEAN : RaceReturn(v)

SpecRace == InitSysfs /\ [][NextRace]_vars

\* ------------------------------------------------- specification: line names
\* The names a line of the chip can have, two that differ in case only, and
\* the names asked for: one of them and one no line has.
LineNames == {"a", "A"}

AskedNames == {"a", "c"}

\* The chips: every naming of up to MaxChipLines lines.
ChipNames == UNION {[1..n -> LineNames] : n \in 0..MaxChipLines}

LookupFailures == {"none", "open", "chipinfo", "lineinfo", "close"}

NextFind ==
    \E names \in ChipNames, name \in AskedNames, f \in LookupFailures :
        FindLineByName(names, name, f)

SpecFind == InitSysfs /\ [][NextFind]_vars

\* ------------------------------------------------ properties of one session
\* The session holds an open line descriptor: its line_fd names a descriptor
\* that is open and is the line this session requested.
HoldsLine(i) ==
    /\ sess[i].cls \in CdevClasses
    /\ sess[i].line_fd # PyNone
    /\ IsOpen(fdtab, sess[i].line_fd)
    /\ fdtab[sess[i].line_fd].kind = "line"
    /\ fdtab[sess[i].line_fd].owner = i

\* The error _reopen raises for a bias the kernel version does not support.
BiasUnsupported == GPIOError("Line bias configuration not supported by kernel version")

\* The flags of a line request that set a drive.
DriveFlagNames == {"OPEN_DRAIN", "OPEN_SOURCE"}

\* The flags of a line request that set a bias.
BiasFlagNames == {"BIAS_PULL_UP", "BIAS_PULL_DOWN", "BIAS_DISABLE", "BIAS_DISABLED"}

\* C1: when a property mutator of a character-device session that holds an
\* open line descriptor fails, the session holds an open line descriptor
\* afterwards (the old one, or a freshly requested one); it is never left
\* with the old one closed and no replacement.
C1_FailedReconfigureKeepsLine ==
    [][\A i \in Sessions :
        (HoldsLine(i) /\ last'.i = i /\ last'.op \in MutatorOps /\ last'.ret # Ok)
            => HoldsLine(i)']_vars

\* C2: in every state of an open character-device session the cached edge is
\* other than "none" only while the cached direction is "in".
C2_EdgeOnlyOnInput ==
    \A i \in Sessions : IsOpenCdev(i) => (sess[i].edge # "none" => sess[i].direction = "in")

\* C3: every line request a character-device session issues carries a drive
\* flag only together with the output flag, and every configuration an open
\* session stores has a drive other than "default" only with direction "out".
C3_DriveOnlyOnOutput ==
    /\ \A k \in DOMAIN last.reqs :
            last.reqs[k].flags \cap DriveFlagNames # {} => "OUTPUT" \in last.reqs[k].flags
    /\ \A i \in Sessions :
            IsOpenCdev(i) => (sess[i].drive # "default" => sess[i].direction = "out")

\* C4: a close() that follows a close() of the same session raises nothing
\* and closes no descriptor a second time: every os.close it makes is on a
\* descriptor that is open.
C4_SecondCloseIsQuiet ==
    [][\A i \in Sessions :
        (last.op = "close" /\ last.i = i /\ last'.op = "close" /\ last'.i = i)
            => /\ last'.ret = Ok
               /\ \A k \in DOMAIN last'.calls : IsOpen(fdtab, last'.calls[k].fd)]_vars

\* C5: close() on a character-device session closes the line descriptor
\* before the chip descriptor, and in no state does a session hold an open
\* line descriptor while its chip descriptor is released.
C5_LineBeforeChip ==
    /\ \A i \in Sessions : HoldsLine(i) => IsOpen(fdtab, sess[i].chip_fd)
    /\ last.op = "close" =>
            \A j, k \in DOMAIN last.calls :
                (last.calls[j].call = "os.close(line_fd)" /\ last.calls[k].call = "os.close(chip_fd)")
                    => j < k

\* C5's case: a close() that closed both descriptors of the session.
C5_Witness ==
    /\ last.op = "close" /\ last.ret = Ok /\ Len(last.calls) = 2
    /\ last.calls[1].call = "os.close(line_fd)" /\ last.calls[2].call = "os.close(chip_fd)"

\* C7: the GPIO factory, called for a character device, yields a v2 session
\* when the kernel is at least 5.10 and a v1 session otherwise.
C7_FactoryPicksByKernel ==
    \A i \in Sessions :
        (last.op = "open" /\ last.arg = "GPIO" /\ last.i = i /\ sess[i].cls \in CdevClasses)
            => IF SUPPORTED(kernel) THEN IsV2(sess[i].cls) ELSE IsV1(sess[i].cls)

\* A call of a v1 session that reached _reopen with a bias other than "default".
V1BiasRequest(i) ==
    /\ last.i = i /\ IsV1(sess[i].cls)
    /\ last.cfg # <<>> /\ last.cfg[3] # "default"

\* C8 as the specification states it: on a kernel below 5.10 the factory
\* yields a v1 session and every bias other than "default", at open or through
\* a mutator, fails with the unsupported-by-kernel-version error.
C8_BiasFailsBelow_5_10 ==
    ~VersionGE(kernel, <<5, 10>>) =>
        \A i \in Sessions :
            /\ (last.op = "open" /\ last.arg = "GPIO" /\ last.i = i) => IsV1(sess[i].cls)
            /\ V1BiasRequest(i) => last.ret = BiasUnsupported

\* C8: on a kernel below 5.10 the factory yields a v1 session.  A v1 session
\* asked for a bias other than "default" raises the unsupported-by-kernel-
\* version error exactly when the kernel is below 5.5, and then issues no
\* line request and closes no descriptor; from 5.5 on the request it issues
\* carries the bias flag.
C8_BiasFailsBelow_5_5 ==
    \A i \in Sessions :
        /\ (~VersionGE(kernel, <<5, 10>>) /\ last.op = "open" /\ last.arg = "GPIO" /\ last.i = i)
                => IsV1(sess[i].cls)
        /\ V1BiasRequest(i) =>
                IF VersionGE(kernel, <<5, 5>>)
                THEN /\ last.ret # BiasUnsupported
                     /\ \A k \in DOMAIN last.reqs : last.reqs[k].flags \cap BiasFlagNames # {}
                ELSE /\ last.ret = BiasUnsupported
                     /\ last.reqs = <<>>
                     /\ \A k \in DOMAIN last.calls : last.calls[k].call = "os.open(path)"

\* C8's case: the bias mutator refused on a kernel older than 5.5.
C8_Witness ==
    /\ kernel = <<4, 19>> /\ last.op = "bias" /\ last.arg = "pull_up"
    /\ V1BiasRequest(last.i) /\ last.ret = BiasUnsupported

\* ------------------------------------------------ properties of sysfs sessions
\* The last call wrote a line number to the unexport file.
WroteUnexport == \E k \in DOMAIN last.calls : last.calls[k].call = "os.write(unexport)"

\* C6: a close() of a sysfs session writes to the unexport file only if the
\* open of that same session wrote the line number to the export file, and
\* never if that open found the line directory already present.
C6_UnexportOnlyOwnExport ==
    \A i \in Sessions :
        (sess[i].cls \in SysfsClasses /\ last.op = "close" /\ last.i = i /\ WroteUnexport)
            => sess[i].wrote_export /\ ~sess[i].found_dir

\* C6's case: a session that found the directory another session had
\* exported has been closed, and the line is still exported.
C6_Witness ==
    \E i, j \in Sessions :
        /\ i # j /\ last.op = "close" /\ last.i = i /\ last.ret = Ok
        /\ sess[i].found_dir /\ sess[i].phase = "closed"
        /\ sess[j].wrote_export /\ sess[j].phase = "open" /\ sess[j].line = sess[i].line
        /\ sysfs[sess[i].line].present /\ ~WroteUnexport

\* ------------------------------------------------ properties of poll_multiple
\* The descriptor of session i has an edge event the caller has not read.
PendingEdge(i) ==
    LET n == Fd(sess[i])
    IN  /\ IsOpen(fdtab, n)
        /\ \/ fdtab[n].kind = "line" /\ line[fdtab[n].of].events # <<>>
           \/ fdtab[n].kind = "value" /\ fdtab[n].pri

\* The sessions a list names.
Members(gpios) == {gpios[k] : k \in DOMAIN gpios}

\* C9: poll_multiple returns exactly the sessions among its arguments whose
\* descriptor has a pending edge, each once, and none it was not passed.
C9_ReturnsExactlyPending ==
    (last.op = "poll_multiple" /\ last.ret = Ok) =>
        /\ Members(last.val) = {i \in Members(last.gpios) : PendingEdge(i)}
        /\ \A j, k \in DOMAIN last.val : j # k => last.val[j] # last.val[k]

\* C10 as the specification states it: when poll_multiple has returned one
\* session, the next call on the same sessions, nothing having happened in
\* between, returns the empty list.  Stated for sessions polled with the
\* mask of their kind (character-device sessions, sysfs sessions of gpio.py).
C10_SecondPollEmpty ==
    (/\ last.op = "poll_multiple" /\ last.ret = Ok
     /\ \A i \in Members(last.gpios) : sess[i].cls \in CdevClasses \/ IsSysfsInstance(sess[i])
     /\ last.prev # <<>> /\ Len(last.prev[2]) = 1)
        => last.val = <<>>

\* C10: poll_multiple consumes nothing.  The next call on the same sessions,
\* nothing having happened in between, returns the same sessions again; and
\* a session polled with the mask of its kind (a character-device session, a
\* sysfs session of gpio.py) is returned exactly while its edge event is
\* unread, so not after read_event() or read() has taken the last one.
C10_PollDoesNotConsume ==
    (last.op = "poll_multiple" /\ last.ret = Ok) =>
        /\ last.prev # <<>> => last.val = last.prev[2]
        /\ \A i \in Members(last.gpios) :
                (sess[i].cls \in CdevClasses \/ IsSysfsInstance(sess[i]))
                    => (i \in Members(last.val) <=> PendingEdge(i))

\* C10's case: the second of two calls in a row on three sessions, the first
\* of which returned one session.
C10_Witness ==
    /\ last.op = "poll_multiple" /\ last.ret = Ok /\ Len(last.gpios) = 3
    /\ last.prev # <<>> /\ Len(last.prev[2]) = 1
    /\ last.val = last.prev[2] /\ PendingEdge(last.val[1])

\* C11: poll_multiple reads from no descriptor.  A call leaves every session
\* object, every line with its queue of edge events and the sysfs directory
\* as they were; the only calls it makes on descriptors are the registrations
\* and the rewinds, and the only descriptors it changes are value descriptors
\* of sysfs sessions it returns, which it sets back to offset 0.
C11_PollReadsNothing ==
    [][last'.op = "poll_multiple" =>
        /\ sess' = sess /\ line' = line /\ sysfs' = sysfs
        /\ \A n \in FdNums :
                \/ fdtab'[n] = fdtab[n]
                \/ /\ fdtab'[n] = [fdtab[n] EXCEPT !.off = 0]
                   /\ \E k \in DOMAIN last'.val :
                         sess[last'.val[k]].cls \in SysfsClasses /\ sess[last'.val[k]].fd = n
        /\ \A k \in DOMAIN last'.calls :
                last'.calls[k].call \in {"register(POLLPRI|POLLERR)", "register(POLLIN|POLLRDNORM)",
                                        "os.lseek(fd)"}]_vars

\* C11's case: poll_multiple has returned a character-device session and a
\* sysfs session it rewound, and the edge event of the line is still queued
\* for read_event().
C11_Witness ==
    /\ last.op = "poll_multiple" /\ last.ret = Ok
    /\ \E j, k \in DOMAIN last.val :
            /\ sess[last.val[j]].cls \in CdevClasses
            /\ Len(line[last.val[j]].events) = 1
            /\ IsSysfsInstance(sess[last.val[k]])
            /\ \E c \in DOMAIN last.calls :
                    last.calls[c].call = "os.lseek(fd)" /\ last.calls[c].fd = sess[last.val[k]].fd

\* C12: poll_multiple registers the descriptor of every sysfs session, of
\* either SysfsGPIO class, with the priority/error mask and that of every
\* character-device session with the readable mask, and when it returns
\* every sysfs session it returns has been rewound: os.lseek was called on
\* its value descriptor, which stands at offset 0.
C12_MaskAndRewindByBackend ==
    (last.op = "poll_multiple" /\ last.ret = Ok) =>
        /\ \A k \in DOMAIN last.gpios :
                last.calls[k].call = IF sess[last.gpios[k]].cls \in SysfsClasses
                                     THEN "register(POLLPRI|POLLERR)"
                                     ELSE "register(POLLIN|POLLRDNORM)"
        /\ \A j \in DOMAIN last.val :
                sess[last.val[j]].cls \in SysfsClasses =>
                    /\ fdtab[sess[last.val[j]].fd].off = 0
                    /\ \E c \in DOMAIN last.calls :
                            /\ last.calls[c].call = "os.lseek(fd)"
                            /\ last.calls[c].fd = sess[last.val[j]].fd /\ last.calls[c].ok

\* ------------------------------------------------ properties of the mutators
\* The last call was an assignment of value to property op of session i.
Assigned(i, op, value) == last.op = op /\ last.i = i /\ last.arg = value

\* C18: assigning direction "in" to a character-device session whose cached
\* edge is other than "none" leaves the cached edge as it was.
C18_DirectionInKeepsEdge ==
    [][\A i \in Sessions :
        (IsOpenCdev(i) /\ sess[i].edge # "none" /\ Assigned(i, "direction", "in")')
            => sess'[i].edge = sess[i].edge]_vars

\* C19: assigning edge "rising", "falling" or "both" to a character-device
\* session whose cached direction is "out" raises GPIOError, makes no system
\* call (no close, no line request) and leaves the session object, the
\* descriptor table and the line as they were.
C19_EdgeOnOutputRefused ==
    [][\A i \in Sessions, e \in Edges \ {"none"} :
        (IsOpenCdev(i) /\ sess[i].direction = "out" /\ Assigned(i, "edge", e)')
            => /\ last'.ret.exc = "GPIOError"
               /\ last'.calls = <<>> /\ last'.reqs = <<>>
               /\ sess' = sess /\ fdtab' = fdtab /\ line' = line]_vars

\* C19's case: the edge mutator refused on an output session that holds its line.
C19_Witness ==
    /\ Assigned(1, "edge", "both") /\ last.ret.exc = "GPIOError"
    /\ IsOpenCdev(1) /\ sess[1].direction = "out" /\ sess[1].edge = "none" /\ HoldsLine(1)

\* C20: assigning drive "open_drain" or "open_source" to a character-device
\* session whose cached direction is "in" raises GPIOError and leaves the
\* session object, the descriptor table and the line as they were; assigning
\* drive "default" to such a session returns normally.
C20_DriveOnInputRefused ==
    [][\A i \in Sessions :
        (IsOpenCdev(i) /\ sess[i].direction = "in" /\ last'.op = "drive" /\ last'.i = i)
            => IF last'.arg = "default"
               THEN last'.ret = Ok
               ELSE /\ last'.ret.exc = "GPIOError"
                    /\ last'.calls = <<>> /\ last'.reqs = <<>>
                    /\ sess' = sess /\ fdtab' = fdtab /\ line' = line]_vars

\* C20's case: the drive mutator refused on an input session that holds its line.
C20_Witness ==
    /\ Assigned(1, "drive", "open_drain") /\ last.ret.exc = "GPIOError" /\ last.calls = <<>>
    /\ IsOpenCdev(1) /\ sess[1].direction = "in" /\ sess[1].drive = "default" /\ HoldsLine(1)

\* ------------------------------------------------ properties of line values
\* C16: a read() that follows the assignment of direction "out" or "low" to
\* an open character-device session finds the session's direction "out" and
\* returns False; one that follows the assignment of "high" finds "out" and
\* returns True.
C16_DirectionSetsLevel ==
    \A i \in Sessions :
        (/\ last.op = "read" /\ last.i = i /\ sess[i].cls \in CdevClasses
         /\ last.prev # <<>> /\ last.prev[1] = "direction" /\ last.prev[2] # "in")
            => /\ sess[i].direction = "out"
               /\ last.ret = Ok
               /\ last.val = <<Str(last.prev[2] = "high")>>

\* C17: a read() that follows a write(v) which returned normally, on the
\* same session, returns v.
C17_ReadAfterWrite ==
    \A i \in Sessions :
        (last.op = "read" /\ last.i = i /\ last.prev # <<>> /\ last.prev[1] = "write")
            => last.ret = Ok /\ last.val = <<last.prev[2]>>

\* C17's case: an inverted character-device session has written True, which
\* drives the pin low, and read it back.
C17_Witness ==
    /\ last.op = "read" /\ last.i = 1 /\ last.prev = <<"write", "True">> /\ last.val = <<"True">>
    /\ sess[1].cls \in CdevClasses /\ sess[1].inverted /\ ~line[1].level

\* ------------------------------------------------ properties of waiting calls
\* The last call was poll() or poll_multiple().
Polled == last.op \in {"poll", "poll_multiple"}

\* An edge event is pending on a descriptor the last poll was made on.
EventArrived ==
    IF last.op = "poll" THEN PendingEdge(last.i) ELSE \E i \in Members(last.gpios) : PendingEdge(i)

\* The last poll reported no event: False, or the empty list.
NoReport == IF last.op = "poll" THEN last.val = <<"False">> ELSE last.val = <<>>

\* C13: a poll() or poll_multiple() with timeout 0 returns without waiting;
\* with a positive timeout it has returned when the timeout has passed, and
\* it reports False or the empty list when no edge event is pending; with a
\* negative timeout (or None) it returns only when an edge event is pending.
C13_TimeoutSemantics ==
    /\ (Polled /\ last.ret = NotReturned) =>
            /\ last.timeout # 0
            /\ last.timeout > 0 => last.waited <= last.timeout * Second
    /\ (Polled /\ last.ret = Ok) =>
            /\ last.timeout = 0 => last.waited = 0
            /\ last.timeout > 0 =>
                    /\ last.waited <= last.timeout * Second
                    /\ ~EventArrived => NoReport
            /\ last.timeout < 0 => EventArrived

\* The sessions of a poll are polled for their edge events: each is an input
\* that asks for edges, and poll_multiple registers it with the mask of its
\* backend.
PolledForEdges ==
    \A i \in (IF last.op = "poll" THEN {last.i} ELSE Members(last.gpios)) :
        IF sess[i].cls \in SysfsClasses
        THEN /\ sysfs[sess[i].line].direction = "in" /\ sysfs[sess[i].line].edge # "none"
             /\ last.op = "poll_multiple" => IsSysfsInstance(sess[i])
        ELSE sess[i].direction = "in" /\ sess[i].edge # "none"

\* C13 for sessions polled for their edge events.
C13_TimeoutSemanticsForEdges == PolledForEdges => C13_TimeoutSemantics

\* C13's case: a poll with a positive timeout has waited the whole timeout
\* and returned False with no edge event pending.
C13_Witness ==
    /\ last.op = "poll" /\ last.ret = Ok /\ last.timeout > 0 /\ PolledForEdges
    /\ last.waited = last.timeout * Second /\ last.val = <<"False">> /\ ~EventArrived

\* C15: no call but poll() and poll_multiple() waits: the caller is never
\* inside a system call of read(), write(), read_event() or an assignment
\* that has not returned.
C15_OnlyPollsWait == last.ret = NotReturned => Polled

\* B, session 2, is an input that asks for both edges, wired to output A,
\* session 1.
LoopbackPair ==
    /\ sess[1].phase = "open" /\ sess[2].phase = "open" /\ ADrives(sess, line, sysfs)
    /\ IF sess[2].cls \in SysfsClasses
       THEN sysfs[2].direction = "in" /\ sysfs[2].edge = "both"
       ELSE sess[2].direction = "in" /\ sess[2].edge = "both"

\* The level A was last written: the logical level A drives.
AWritten ==
    IF sess[1].cls \in SysfsClasses THEN sysfs[1].level # sysfs[1].active_low
    ELSE PyBool(LineValue(line[1]))

\* B's poll with a positive timeout has returned True after waiting through
\* a change of the level written to A.
WokenByA ==
    IF last.op = "poll" /\ last.i = 2 /\ last.ret = Ok
    THEN LoopbackPair /\ last.timeout > 0 /\ last.val = <<"True">> /\ last.prev # <<>>
    ELSE FALSE

\* C14: in the loopback, when the level written to A changes while B waits
\* in poll with a positive timeout, the poll returns True before the timeout
\* has passed; the read() that follows on B returns the level last written
\* to A; and the read_event() that follows on a character-device B returns
\* the edge of that change with a timestamp that is not zero.
C14_LoopbackWakesPoll ==
    /\ (/\ LoopbackPair /\ last.op = "poll" /\ last.i = 2 /\ last.timeout > 0
        /\ last.ret = NotReturned /\ last.prev # <<>>)
            ~> (WokenByA /\ last.waited <= last.timeout * Second)
    /\ [][(WokenByA /\ last'.op = "read" /\ last'.i = 2) =>
                (last'.ret = Ok /\ last'.val = <<Str(AWritten')>>)]_vars
    /\ [][(WokenByA /\ last'.op = "read_event" /\ last'.i = 2) =>
                (last'.ret = Ok /\ last'.val[1] = last.prev[1] /\ last'.val[2] # 0)]_vars

\* C14's case: B's poll has returned True after a wait in which A changed
\* level, and the edge event is queued on B's line descriptor.
C14_Witness ==
    /\ WokenByA /\ last.waited > 0 /\ sess[2].cls \in CdevClasses
    /\ line[2].events # <<>> /\ EventEdge(line[2].events[1].id) = last.prev[1]

\* ------------------------------------------------ properties of the checks
\* C21: write(v) on a character-device session makes the set-values control
\* call only when the cached direction is "out"; when it is "in" the call
\* raises GPIOError (invalid operation), makes no control call and leaves the
\* session, the descriptors and the lines as they were.
C21_WriteOnlyOnOutput ==
    [][\A i \in Sessions :
        (last'.op = "write" /\ last'.i = i /\ sess[i].cls \in CdevClasses) =>
            /\ last'.calls # <<>> => sess[i].direction = "out"
            /\ sess[i].direction = "in" =>
                    /\ last'.ret = GPIOError("Invalid operation: cannot write to input GPIO")
                    /\ last'.calls = <<>>
                    /\ sess' = sess /\ fdtab' = fdtab /\ line' = line /\ sysfs' = sysfs]_vars

\* C21's case: write() on an open input session has raised GPIOError.
C21_Witness ==
    /\ last.op = "write" /\ last.i = 1 /\ sess[1].cls \in CdevClasses /\ sess[1].direction = "in"
    /\ line[1].requested /\ "INPUT" \in line[1].flags
    /\ last.ret = GPIOError("Invalid operation: cannot write to input GPIO") /\ last.calls = <<>>

\* C22: read_event() on a character-device session gets to os.read on the
\* line descriptor only when the cached direction is "in" and the cached
\* edge is not "none"; on an output session, and on an input session with
\* edge "none", it raises GPIOError, reads nothing and leaves the session,
\* the descriptors and the queued events as they were.
C22_ReadEventOnlyWithEdge ==
    [][\A i \in Sessions :
        (last'.op = "read_event" /\ last'.i = i) =>
            /\ (last'.calls # <<>> \/ last'.ret = NotReturned) =>
                    sess[i].direction = "in" /\ sess[i].edge # "none"
            /\ (sess[i].direction # "in" \/ sess[i].edge = "none") =>
                    /\ last'.ret.exc = "GPIOError"
                    /\ last'.calls = <<>>
                    /\ sess' = sess /\ fdtab' = fdtab /\ line' = line /\ sysfs' = sysfs]_vars

\* C22's case: read_event() on an open input session with edge "none" has
\* raised GPIOError.
C22_Witness ==
    /\ last.op = "read_event" /\ last.i = 2 /\ sess[2].cls \in CdevClasses
    /\ sess[2].direction = "in" /\ sess[2].edge = "none" /\ line[2].requested
    /\ last.ret = GPIOError("Invalid operation: GPIO edge not set") /\ last.calls = <<>>

\* ------------------------------------------------ properties of the bring-up
\* An _open is inside one of its loops.
OpenInProgress == last.op = "open" /\ last.ret = NotReturned

\* The sleeps the loops of the last _open have made: one after every check
\* that did not find the directory, one after every attempt that failed
\* with EACCES and was not the last.
Sleeps ==
    (IF last.prev[1] = "stat" THEN last.prev[3] ELSE last.prev[3] - 1)
    + (IF last.prev[1] # "direction" THEN 0
       ELSE IF last.prev[2] < GPIO_STAT_RETRIES THEN last.prev[2] ELSE GPIO_STAT_RETRIES - 1)

\* C23: opening a sysfs session always ends.  The first loop makes at most
\* GPIO_STAT_RETRIES checks for the directory, the second at most
\* GPIO_STAT_RETRIES attempts on the direction attribute, with one sleep of
\* GPIO_STAT_DELAY between two of them, whatever each check and each attempt
\* finds; and an _open that is inside a loop leaves it.
C23_BringUpTerminates ==
    /\ [][(last'.op = "open" /\ last'.prev # <<>>) =>
            /\ last'.prev[3] <= GPIO_STAT_RETRIES
            /\ last'.prev[2] <= GPIO_STAT_RETRIES
            /\ (last'.ret = NotReturned /\ last'.prev[1] = "direction") => last'.prev[2] < GPIO_STAT_RETRIES
            /\ last'.waited = GPIO_STAT_DELAY * Sleeps']_vars
    /\ OpenInProgress ~> ~OpenInProgress

\* C23's case: an _open has made every check of the first loop but the
\* last without finding the directory, and every attempt of the second
\* but the last without opening the attribute, and has returned normally.
C23_Witness ==
    /\ last.op = "open" /\ last.ret = Ok
    /\ last.prev = <<"direction", GPIO_STAT_RETRIES - 1, GPIO_STAT_RETRIES>>
    /\ last.waited = GPIO_STAT_DELAY * (2 * GPIO_STAT_RETRIES - 2)

\* The last _open has used up a loop: no check of the first found the
\* directory, or every attempt of the second failed with EACCES.
BudgetExhausted ==
    /\ last.op = "open" /\ last.ret # NotReturned /\ last.prev # <<>>
    /\ \/ last.prev[1] = "stat"
       \/ last.prev[1] = "direction" /\ last.prev[2] = GPIO_STAT_RETRIES

\* C24: a sysfs _open that has used up either loop raises TimeoutError.
C24_ExhaustedBudgetTimesOut == BudgetExhausted => last.ret.exc = "TimeoutError"

\* C24 for the first loop alone.
C24_ExportTimesOut == (BudgetExhausted /\ last.prev[1] = "stat") => last.ret.exc = "TimeoutError"


\* ------------------------------------------------- properties of the lookup
\* The offsets of the chip whose name equals the name asked for.
Matches(l) == {k \in 0..(Len(l.cfg) - 1) : l.cfg[k + 1] = l.arg}

\* Every system call of the lookup succeeded.
AllCallsOk(l) == \A k \in 1..Len(l.calls) : l.calls[k].ok

\* The lookup closed the chip descriptor it opened, as its last system call.
ChipClosed(l) ==
    /\ Len(l.calls) >= 2
    /\ l.calls[1].call = "os.open(path)"
    /\ l.calls[Len(l.calls)] = Call("os.close(fd)", l.calls[1].fd, TRUE)

\* C25: a lookup by name that returns, returns the lowest offset in
\* 0..count-1 whose name equals the name asked for exactly (case matters);
\* when no line has the name and no system call fails it raises LookupError,
\* which is not GPIOError, and it raises LookupError in no other case; in
\* both outcomes it has closed the chip descriptor it opened, so the
\* descriptor table is as it was before the lookup.
C25_LookupByName ==
    [][last'.op = "_find_line_by_name" =>
        /\ last'.ret = Ok =>
            /\ Matches(last') # {}
            /\ last'.val = <<CHOOSE k \in Matches(last') : \A j \in Matches(last') : k <= j>>
        /\ last'.ret.exc = "LookupError" => Matches(last') = {}
        /\ (Matches(last') = {} /\ AllCallsOk(last')) =>
            (last'.ret.exc = "LookupError" /\ last'.ret.exc # GPIOError("").exc)
        /\ last'.ret.exc \in {"None", "LookupError"} =>
            (ChipClosed(last') /\ fdtab' = fdtab)]_vars

\* A lookup of "a" on a chip whose first two lines are "A" and whose third
\* is "a" returned 2 and left the descriptor table with the chip closed.
C25_Witness ==
    /\ last.op = "_find_line_by_name"
    /\ last.ret = Ok /\ last.arg = "a" /\ last.cfg = <<"A", "A", "a">> /\ last.val = <<2>>
    /\ ChipClosed(last)


\* ------------------------------------------------- properties of the rewind
\* Every open value descriptor of a sysfs session stands at offset 0.
AllRewound == \A n \in FdNums : fdtab[n].kind = "value" => fdtab[n].off = 0

\* The call in the log is a read(), a write() or a poll() on a sysfs session
\* that has returned, the poll() with True.
SysfsValueCall(l) ==
    /\ l.op \in {"read", "write", "poll"}
    /\ l.i \in Sessions /\ sess[l.i].cls \in SysfsClasses
    /\ l.ret = Ok
    /\ l.op = "poll" => l.val = <<"True">>

\* C26: after every read(), write() and poll() reporting an event on a sysfs
\* session, and so between any two calls, the value descriptor stands at
\* offset 0; every read() that returns has read from offset 0, rewound, and
\* returned the logical level of the line.
C26_RewoundOnReturn ==
    [][/\ AllRewound'
       /\ SysfsValueCall(last') =>
            /\ fdtab'[sess[last'.i].fd].off = 0
            /\ last'.calls[Len(last'.calls)] = Call("os.lseek(fd)", sess[last'.i].fd, TRUE)
       /\ (SysfsValueCall(last') /\ last'.op = "read" /\ last' # last) =>
            /\ fdtab[sess[last'.i].fd].off = 0
            /\ last'.val = <<Str(sysfs[sess[last'.i].line].level # sysfs[sess[last'.i].line].active_low)>>]_vars

\* A read() on a sysfs session has returned with the descriptor at offset 0,
\* while a second sysfs session holds a value descriptor of its own.
C26_Witness ==
    /\ SysfsValueCall(last) /\ last.op = "read"
    /\ fdtab[sess[last.i].fd].off = 0
    /\ \E n \in FdNums : fdtab[n].kind = "value" /\ n # sess[last.i].fd


\* --------------------------------------- properties of the unsupported calls
\* C27: on a sysfs object, open, closed or never opened, reading or assigning
\* bias, reading or assigning drive, reading chip_fd and read_event() raise
\* NotImplementedError, make no system call and change neither the object
\* nor any descriptor, line or attribute.
C27_SysfsUnsupported ==
    [][last'.op \in UnsupportedOps =>
        /\ sess[last'.i].cls \in SysfsClasses
        /\ last'.ret.exc = "NotImplementedError"
        /\ last'.calls = <<>> /\ last'.reqs = <<>>
        /\ UNCHANGED <<kernel, sess, fdtab, line, sysfs>>]_vars

\* bias has been assigned on an open sysfs session, which still holds its
\* value descriptor.
C27_Witness ==
    /\ last.op = "_set_bias" /\ last.arg = "pull_up"
    /\ last.ret.exc = "NotImplementedError"
    /\ sess[last.i].cls \in SysfsClasses /\ sess[last.i].phase = "open"
    /\ IsOpen(fdtab, sess[last.i].fd)


\* ------------------------------------------------ properties of the arguments
\* The types the documentation gives parameter p of a session of class c.
DocTypes(c, p) ==
    IF p = "path" THEN {"str"}
    ELSE IF p = "line" THEN (IF c \in SysfsClasses THEN {"int"} ELSE {"int", "str"})
    ELSE IF p \in {"inverted", "value"} THEN {"bool"}
    ELSE IF p = "label" THEN {"NoneType", "str"}
    ELSE IF p = "timeout" THEN {"int", "float", "NoneType"}
    ELSE {"str"}

\* The closed set of parameter p.
ClosedSet(p) ==
    IF p = "direction" THEN Directions ELSE IF p = "edge" THEN Edges
    ELSE IF p = "bias" THEN Biases ELSE Drives

\* The call in log l, made on a session of class c, was given an argument of
\* the wrong type, or a string that is in its closed set in no spelling.
BadArgument(l, c) ==
    /\ l.op \in {"open", "write", "poll"} \cup MutatorOps
    /\ Len(l.prev) = 3
    /\ LET p == l.prev[1]
           x == Py(l.prev[2], l.prev[3])
       IN  \/ ~IsInstance(x, DocTypes(c, p))
           \/ p \in {"direction", "edge", "bias", "drive"} /\ Lower(x.v) \notin ClosedSet(p)

\* Session i holds no descriptor.
HoldsNothing(s) == s.line_fd = PyNone /\ s.chip_fd = PyNone /\ s.fd = PyNone

\* C28: a constructor, a setter, write() or poll() given an argument of the
\* wrong type or outside its closed set raises TypeError or ValueError
\* having made no system call: the descriptors, the lines and the attributes
\* are as before, a session that existed is unchanged, and a constructor
\* leaves an object that holds no descriptor.
C28_ArgumentErrorsFirst ==
    [][BadArgument(last', sess'[last'.i].cls) =>
        /\ last'.ret.exc \in {"TypeError", "ValueError"}
        /\ last'.calls = <<>> /\ last'.reqs = <<>>
        /\ UNCHANGED <<kernel, fdtab, line, sysfs>>
        /\ \A j \in Sessions : j # last'.i => sess'[j] = sess[j]
        /\ IF last'.op = "open" THEN HoldsNothing(sess'[last'.i]) /\ sess'[last'.i].phase = "failed"
           ELSE sess'[last'.i] = sess[last'.i]]_vars

\* write(None) has raised TypeError on an open output session that holds its
\* two descriptors.
C28_Witness ==
    /\ last.op = "write" /\ last.prev = <<"value", "NoneType", "None">>
    /\ last.ret.exc = "TypeError"
    /\ sess[1].phase = "open" /\ sess[1].direction = "out"
    /\ IsOpen(fdtab, sess[1].line_fd) /\ IsOpen(fdtab, sess[1].chip_fd)


\* ------------------------------------------- properties of the descriptors
\* The line descriptors of session i in the descriptor table.
LineDescriptors(i) == {n \in FdNums : fdtab[n].kind = "line" /\ fdtab[n].owner = i}

\* The places in the calls of log l where a line is requested of the chip.
RequestCalls(l) == {k \in DOMAIN l.calls : l.calls[k].call \notin {"os.close(line_fd)", "os.close(chip_fd)", "os.open(path)"}}

\* C29: a property assignment on a character-device session that asks the
\* chip for the line has closed the line descriptor the session held before
\* it asks, and asks once; no assignment closes the chip descriptor or
\* changes it; a session has at most one line descriptor in the descriptor
\* table at any time; and the chip descriptor is open after a successful
\* open and stays the same open descriptor through every call but close().
C29_ReopenClosesLineFirst ==
    [][/\ \A i \in Sessions : Cardinality(LineDescriptors(i)') <= 1
       /\ last'.op \in MutatorOps =>
            /\ Cardinality(RequestCalls(last')) <= 1
            /\ \A k \in RequestCalls(last') :
                /\ last'.calls[k].fd = sess[last'.i].chip_fd
                /\ HoldsLine(last'.i) =>
                    \E j \in 1..(k - 1) : last'.calls[j] = Call("os.close(line_fd)", sess[last'.i].line_fd, TRUE)
            /\ \A k \in DOMAIN last'.calls : last'.calls[k].call # "os.close(chip_fd)"
       /\ (last'.op = "open" /\ last'.ret = Ok /\ sess'[last'.i].cls \in CdevClasses) =>
            (IsOpen(fdtab', sess'[last'.i].chip_fd) /\ fdtab'[sess'[last'.i].chip_fd].kind = "chip")
       /\ \A i \in Sessions :
            (/\ sess[i].cls \in CdevClasses /\ sess[i].phase = "open"
             /\ IsOpen(fdtab, sess[i].chip_fd)
             /\ ~(last'.op = "close" /\ last'.i = i)) =>
                /\ sess'[i].chip_fd = sess[i].chip_fd
                /\ fdtab'[sess[i].chip_fd] = fdtab[sess[i].chip_fd]]_vars

\* An assignment has closed the line descriptor of the session and has been
\* granted the line anew, on the chip descriptor the session opened.
C29_Witness ==
    /\ last.op \in MutatorOps /\ last.ret = Ok
    /\ Len(last.calls) = 2
    /\ last.calls[1].call = "os.close(line_fd)" /\ last.calls[1].ok
    /\ last.calls[2].fd = sess[last.i].chip_fd /\ last.calls[2].ok
    /\ HoldsLine(last.i)
    /\ IsOpen(fdtab, sess[last.i].chip_fd) /\ fdtab[sess[last.i].chip_fd].kind = "chip"


\* --------------------------------------------- properties of the assignments
\* What the getter of property p of session s returns, as text.
Getter(s, p) ==
    IF p = "direction" THEN s.direction ELSE IF p = "edge" THEN s.edge
    ELSE IF p = "bias" THEN s.bias ELSE IF p = "drive" THEN s.drive ELSE Str(s.inverted)

\* The direction a session reports after direction d was assigned.
Normalised(d) == IF d = "in" THEN "in" ELSE "out"

\* An assignment to property p of open character-device session i returns.
AssignedOk(i, p) ==
    /\ IsOpenCdev(i)
    /\ last'.op = p /\ last'.i = i /\ last'.ret = Ok /\ last' # last

\* C30: a successful assignment to direction, edge, bias, drive or inverted
\* on a character-device session makes the getter of that property return
\* the value assigned (for direction "in" or "out") and leaves the other
\* four cached properties and the line number as they were, except that an
\* assignment that changes the direction leaves edge "none".
C30_AssignmentFrame ==
    [][\A i \in Sessions : \A p \in MutatorOps :
        AssignedOk(i, p) =>
            /\ Getter(sess'[i], p) = (IF p = "direction" THEN Normalised(last'.arg) ELSE last'.arg)
            /\ \A q \in MutatorOps \ {p} :
                IF p = "direction" /\ q = "edge" /\ sess'[i].direction # sess[i].direction
                THEN sess'[i].edge = "none"
                ELSE Getter(sess'[i], q) = Getter(sess[i], q)
            /\ sess'[i].line = sess[i].line]_vars


\* The same for the sessions whose cached edge is "none" whenever their
\* cached direction is "out", which is every session but those a
\* constructor made an output with an edge (C2).
C30_AssignmentFrameWithoutOutputEdge ==
    [][\A i \in Sessions : \A p \in MutatorOps :
        (AssignedOk(i, p) /\ (sess[i].direction = "out" => sess[i].edge = "none")) =>
            /\ Getter(sess'[i], p) = (IF p = "direction" THEN Normalised(last'.arg) ELSE last'.arg)
            /\ \A q \in MutatorOps \ {p} :
                IF p = "direction" /\ q = "edge" /\ sess'[i].direction # sess[i].direction
                THEN sess'[i].edge = "none"
                ELSE Getter(sess'[i], q) = Getter(sess[i], q)
            /\ sess'[i].line = sess[i].line]_vars


\* An assignment to property p of open character-device session i of the
\* value the session has cached for it.
AssignedCached(i, p) ==
    /\ IsOpenCdev(i)
    /\ last'.op = p /\ last'.i = i
    /\ last'.arg = Getter(sess[i], p)

ReopenWithBias(l, s) == IsV1(s.cls) /\ l.cfg # <<>> /\ l.cfg[3] # "default"

\* C32: on a kernel older than 5.5 a _reopen of a v1 session with a bias
\* other than "default" raises the unsupported-bias GPIOError having closed
\* no descriptor and issued no line request; when it was reached from a
\* setter, the session, its line descriptor and its cached configuration,
\* the descriptor table and the line are exactly as they were.
C32_BiasRejectedFirst ==
    [][\A i \in Sessions :
        (~VersionGE(kernel, <<5, 5>>) /\ last'.i = i /\ ReopenWithBias(last', sess'[i])) =>
            /\ last'.ret = BiasUnsupported
            /\ last'.reqs = <<>>
            /\ \A k \in DOMAIN last'.calls : last'.calls[k].call = "os.open(path)"
            /\ last'.op \in MutatorOps => (last'.calls = <<>> /\ UNCHANGED <<sess, fdtab, line>>)]_vars

\* On kernel 4.19 the assignment of "pull_up" to a v1 session has been
\* rejected, and the session holds the line with the default bias.
C32_Witness ==
    /\ kernel = <<4, 19>>
    /\ last.op = "bias" /\ last.arg = "pull_up" /\ last.ret = BiasUnsupported /\ last.calls = <<>>
    /\ IsOpenCdev(last.i) /\ IsV1(sess[last.i].cls) /\ HoldsLine(last.i)
    /\ sess[last.i].bias = "default"


\* ------------------------------------------------ properties of the requests
\* The edge flags of a v2 request for edge mode e.
EdgeModeFlags(e) ==
    IF e = "rising" THEN {"EDGE_RISING"} ELSE IF e = "falling" THEN {"EDGE_FALLING"}
    ELSE IF e = "both" THEN {"EDGE_RISING", "EDGE_FALLING"} ELSE {}

\* Request req, issued by a _reopen that was passed edge e, has the realtime
\* event clock flag exactly when e is not "none", and the edge flags of e.
EdgeEncoded(req, e) ==
    /\ "EVENT_CLOCK_REALTIME" \in req.flags <=> e # "none"
    /\ req.flags \cap {"EDGE_RISING", "EDGE_FALLING"} = EdgeModeFlags(e)

\* C33: every v2 line request a session issues has the realtime event clock
\* flag exactly when the edge the session is configured with is not "none",
\* and has the rising and falling edge flags of that edge mode.
C33_V2EdgeFlags ==
    \A k \in DOMAIN last.reqs :
        (last.reqs[k].ioctl = "GPIO_V2_GET_LINE" /\ last.cfg # <<>>) => EdgeEncoded(last.reqs[k], last.cfg[2])

\* The same for the requests of an input line.
C33_V2EdgeFlagsOfInputs ==
    \A k \in DOMAIN last.reqs :
        (last.reqs[k].ioctl = "GPIO_V2_GET_LINE" /\ last.cfg # <<>> /\ "INPUT" \in last.reqs[k].flags)
            => EdgeEncoded(last.reqs[k], last.cfg[2])


\* ------------------------------------------- properties of a setter in poll
\* C34: nothing keeps a setter from running while poll() is blocked on the
\* same character-device session: whenever a poll is blocked and the session
\* holds a line descriptor, the setter's close of that descriptor can be the
\* next step.
C34_NoGuard ==
    \A i \in Sessions :
        (PollBlocked(i) /\ IsOpenCdev(i) /\ sess[i].line_fd # PyNone) => ENABLED RaceClose(i)

\* poll() is blocked on a number the setter has closed under it, and the
\* new request has been given that number again.
C34_Witness ==
    /\ PollBlocked(1)
    /\ last.prev = <<sess[1].line_fd, "closed">>
    /\ sess[1].phase = "open" /\ HoldsLine(1)


\* --------------------------------------------- properties of output requests
\* bias, drive and inverted, the setters that pass the cached direction on.
KeepsDirectionOps == {"bias", "drive", "inverted"}

\* C35: every line request for an output carries the value
\* (direction = "high") XOR inverted, where direction and inverted are the
\* arguments of _reopen; and when bias, drive or inverted of a session whose
\* cached direction is "out" is changed and the line is granted again, the
\* pin is driven low, whatever it was driven to before.
C35_OutputRequestedLow ==
    [][\A i \in Sessions :
        (last'.i = i /\ sess'[i].cls \in CdevClasses) =>
            /\ \A k \in DOMAIN last'.reqs :
                    "OUTPUT" \in last'.reqs[k].flags =>
                        last'.reqs[k].value = ((last'.cfg[1] = "high") # (last'.cfg[5] = "True"))
            /\ (/\ last'.op \in KeepsDirectionOps
                /\ sess[i].direction = "out"
                /\ last'.reqs # <<>>
                /\ last'.ret = Ok)
                    => /\ line'[i].requested /\ "OUTPUT" \in line'[i].flags
                       /\ ~line'[i].level]_vars

\* inverted = True was assigned to an output session: the line was requested
\* again with the value True and active low, and the pin is low.
C35_Witness ==
    /\ last.op = "inverted" /\ last.i = 1 /\ last.arg = "True" /\ last.ret = Ok
    /\ Len(last.reqs) = 1 /\ last.reqs[1].value /\ "ACTIVE_LOW" \in last.reqs[1].flags
    /\ sess[1].direction = "out" /\ sess[1].inverted
    /\ HoldsLine(1) /\ ~line[1].level


\* ------------------------------------------------- properties of a failed close
\* C36: after a close() of a character-device session that raised, the
\* session holds the number of no descriptor that this close() closed
\* successfully.
C36_ClosedNumbersForgotten ==
    \A i \in Sessions :
        (last.op = "close" /\ last.i = i /\ last.ret # Ok /\ sess[i].cls \in CdevClasses) =>
            \A k \in DOMAIN last.calls :
                last.calls[k].ok =>
                    /\ sess[i].line_fd # last.calls[k].fd
                    /\ sess[i].chip_fd # last.calls[k].fd


\* --------------------------------------------- properties of a failed sysfs open
\* C37: when the open of a sysfs session exported the line and then failed
\* before the value file was open (the direction attribute never became
\* writable, or the value file could not be opened), close() on that
\* session unexports the line: it writes the line number to the unexport
\* file.
C37_FailedOpenUnexports ==
    [][\A i \in Sessions :
        (/\ sess[i].cls \in SysfsClasses /\ sess[i].phase = "failed"
         /\ sess[i].exported /\ sess[i].fd = PyNone
         /\ last'.op = "close" /\ last'.i = i /\ last'.ret = Ok)
            => \E k \in DOMAIN last'.calls :
                    last'.calls[k].call = "os.write(unexport)" /\ last'.calls[k].ok]_vars


\* ------------------------------------------- properties of shared sysfs lines
\* C38: no sysfs session that is open holds a value descriptor of a line
\* that a close() of another session has unexported.
C38_NoUnexportUnderOpenValue ==
    \A j \in Sessions :
        (IsOpenSysfs(j) /\ sess[j].fd # PyNone /\ IsOpen(fdtab, sess[j].fd))
            => fdtab[sess[j].fd].kind # "deadvalue"


\* ------------------------------------------ properties of the lookup's handle
\* C39: a lookup by name that opened the chip has called os.close on that
\* descriptor before it returns or raises, whichever way it ends.
C39_ChipHandleClosed ==
    (last.op = "_find_line_by_name" /\ last.calls[1].ok) =>
        \E k \in DOMAIN last.calls :
            last.calls[k].call = "os.close(fd)" /\ last.calls[k].fd = last.calls[1].fd

====
